---- MODULE Spec2Model ----
(***************************************************************************)
(* A model of auto_editor/interpreter.py (lexer, parser, standard library, *)
(* tree-walking evaluator) and of the read-eval-print loop of              *)
(* auto_editor/subcommands/repl.py.                                        *)
(*                                                                         *)
(* Conventions.  A Python str that comes from the source text is a tuple   *)
(* of one-character strings; a str that is a constant of the program (a    *)
(* token type, a procedure's display name, a contract's docstring, the     *)
(* fixed part of a message) is a TLA+ string.  Runtime values, tokens and  *)
(* AST nodes are tuples whose first element is the tag.  Positions are     *)
(* 0-based as in the source.                                               *)
(***************************************************************************)
EXTENDS Integers, Sequences, FiniteSets, TLC

(***************************************************************************)
(* Bounds of the model.                                                    *)
(***************************************************************************)
\* longest source text the front-end specification enumerates
MaxSrcLen == 4
\* number of lines the read-eval-print loop reads
MaxLines == 3
\* most arguments a procedure is applied to in SpecApply
MaxArgs == 3
MaxFrames == 4

(***************************************************************************)
(* Small helpers.                                                          *)
(***************************************************************************)
Min(S) == CHOOSE m \in S : \A n \in S : m <= n

Abs(n) == IF n < 0 THEN -n ELSE n

RECURSIVE Gcd(_, _)
Gcd(a, b) == IF b = 0 THEN a ELSE Gcd(b, a % b)

RECURSIVE SeqsUpTo(_, _)
\* all sequences over S of length at most n
SeqsUpTo(S, n) ==
  IF n = 0 THEN {<<>>}
  ELSE LET shorter == SeqsUpTo(S, n - 1)
       IN shorter \cup {Append(s, c) : s \in shorter, c \in S}

Tail0(s, k) == SubSeq(s, k + 1, Len(s))

(***************************************************************************)
(* Exceptions.  exc is the Python exception class ("" when nothing was     *)
(* raised), msg the fixed part of its message, who the procedure or form   *)
(* the message names, args what else the message interpolates.             *)
(***************************************************************************)
NoErr == [exc |-> "", msg |-> "", who |-> "", args |-> <<>>]

Raise(exc, msg, who, args) == [exc |-> exc, msg |-> msg, who |-> who, args |-> args]

MyError(msg, who, args) == Raise("MyError", msg, who, args)

IsErr(e) == e.exc # ""

(***************************************************************************)
(* Runtime values: Python int, Fraction, float, complex, bool, str, None,  *)
(* CharType, Null, ConsType, numpy bool array, Proc.  A float is kept as   *)
(* the exact rational its decimal literal denotes (in lowest terms), which *)
(* is injective on the short literals of the model.                        *)
(***************************************************************************)
IntV(n) == <<"int", n>>
FracV(n, d) == <<"frac", n, d>>
FloatV(n, d) == <<"float", n, d>>
ComplexV(re, im) == <<"complex", re, im>>
BoolV(b) == <<"bool", b>>
StrV(s) == <<"str", s>>
CharV(c) == <<"char", c>>
ArrV(bits) == <<"arr", bits>>
ProcV(key) == <<"proc", key>>
NullV == <<"null">>
None == <<"None">>

Tag(v) == v[1]

\* Fraction(n, d) for d # 0, normalised as fractions.Fraction does
Fraction(n, d) ==
  LET g == Gcd(Abs(n), Abs(d))
      s == IF d < 0 THEN -1 ELSE 1
  IN <<(s * n) \div g, (s * d) \div g>>

(***************************************************************************)
(* LEXER                                                                   *)
(***************************************************************************)
cAudio == <<"a", "u", "d", "i", "o">>
cMotion == <<"m", "o", "t", "i", "o", "n">>
cPixeldiff == <<"p", "i", "x", "e", "l", "d", "i", "f", "f">>
cRandom == <<"r", "a", "n", "d", "o", "m">>
cNone == <<"n", "o", "n", "e">>
cAll == <<"a", "l", "l">>

METHODS == {cAudio, cMotion, cPixeldiff, cRandom, cNone, cAll}

SEC_UNITS ==
  { <<"s">>, <<"s", "e", "c">>, <<"s", "e", "c", "s">>,
    <<"s", "e", "c", "o", "n", "d">>, <<"s", "e", "c", "o", "n", "d", "s">> }

ID == "ID"
NUM == "NUM"
BOOL == "BOOL"
STR == "STR"
ARR == "ARR"
SEC == "SEC"
CHAR == "CHAR"
LPAREN == "("
RPAREN == ")"
LBRAC == "["
RBRAC == "]"
LCUR == "{"
RCUR == "}"
EOF == "EOF"

Token(type, value) == <<type, value>>

TokType(tok) == tok[1]

TokValue(tok) == tok[2]

\* self.char is None
NoChar == "None"

Whitespace == {" ", "\t", "\n", "\r", "\f"}

Digits == {"0", "1", "2", "3", "4", "5", "6", "7", "8", "9"}

NumberChars == Digits \cup {"+", "-", ".", "/"}

Brackets == {"(", ")", "[", "]", "{", "}"}

\* self.char at position pos: None past the end of the text
CharAt(text, pos) == IF pos > Len(text) - 1 THEN NoChar ELSE text[pos + 1]

\* the characters that end a symbol: ()[]{}"; and whitespace
NotNorm == Brackets \cup {"\"", ";"} \cup Whitespace

char_is_norm(text, pos) == CharAt(text, pos) # NoChar /\ CharAt(text, pos) \notin NotNorm

peek(text, pos) == CharAt(text, pos + 1)

\* where the loop `while self.char is not None and self.char in chars: advance()`
\* started at pos ends
ScanWhile(text, pos, chars) ==
  IF pos >= Len(text) THEN pos
  ELSE Min({i \in pos .. Len(text) : CharAt(text, i) \notin chars})

\* where the loop `while self.char is not None and self.char not in chars: advance()`
\* started at pos ends
ScanUntil(text, pos, chars) ==
  IF pos >= Len(text) THEN pos
  ELSE Min({i \in pos .. Len(text) : CharAt(text, i) = NoChar \/ CharAt(text, i) \in chars})

skip_whitespace(text, pos) == ScanWhile(text, pos, Whitespace)

\* what the lexer hands back: an exception, or a token and the position after it
LexOk(tok, pos) == [err |-> NoErr, tok |-> tok, pos |-> pos]

LexFail(err, pos) == [err |-> err, tok |-> Token(EOF, <<>>), pos |-> pos]

Unescape(c) ==
  CASE c = "n" -> "\n"
    [] c = "t" -> "\t"
    [] OTHER -> c

RECURSIVE string_loop(_, _, _)
\* Lexer.string from the character after the opening quote; result so far
string_loop(text, pos, result) ==
  LET c == CharAt(text, pos)
  IN IF c = NoChar \/ c = "\""
     THEN LexOk(Token(STR, result), pos + 1)
     ELSE IF c = "\\"
     THEN LET e == CharAt(text, pos + 1)
          IN IF e = NoChar
             \* `None in 'nt"\\'` raises before the EOF test of line 162
             THEN LexFail(Raise("TypeError", "'in <string>' requires string as left operand", "", <<>>), pos + 1)
             ELSE IF e \in {"n", "t", "\"", "\\"}
             THEN string_loop(text, pos + 2, Append(result, Unescape(e)))
             ELSE LexFail(MyError("Unexpected character during escape sequence", "", <<e>>), pos + 1)
     ELSE string_loop(text, pos + 1, Append(result, c))

string(text, pos) == string_loop(text, pos, <<>>)

(* ---- literals of Lexer.number: int(), float(), Fraction(), complex() ---- *)
IsSign(c) == c \in {"+", "-"}

DigitVal(c) ==
  CASE c = "0" -> 0 [] c = "1" -> 1 [] c = "2" -> 2 [] c = "3" -> 3 [] c = "4" -> 4
    [] c = "5" -> 5 [] c = "6" -> 6 [] c = "7" -> 7 [] c = "8" -> 8 [] c = "9" -> 9

RECURSIVE Nat10(_)
\* the number a run of digits denotes (0 for the empty run)
Nat10(ds) == IF ds = <<>> THEN 0 ELSE 10 * Nat10(SubSeq(ds, 1, Len(ds) - 1)) + DigitVal(ds[Len(ds)])

RECURSIVE Pow10(_)
Pow10(k) == IF k = 0 THEN 1 ELSE 10 * Pow10(k - 1)

IsDigitRun(s) == Len(s) >= 1 /\ \A i \in 1 .. Len(s) : s[i] \in Digits

SignOf(s) == IF s # <<>> /\ s[1] = "-" THEN -1 ELSE 1

Unsigned(s) == IF s # <<>> /\ IsSign(s[1]) THEN Tail(s) ELSE s

Has(s, c) == \E i \in 1 .. Len(s) : s[i] = c

IndexOf(s, c) == Min({i \in 1 .. Len(s) : s[i] = c})

ParseFail == [ok |-> FALSE, zero |-> FALSE, num |-> 0, den |-> 1]

ParseOk(q) == [ok |-> TRUE, zero |-> FALSE, num |-> q[1], den |-> q[2]]

\* int(s): an optional sign and a run of digits
ParseInt(s) ==
  IF IsDigitRun(Unsigned(s)) THEN ParseOk(<<SignOf(s) * Nat10(Unsigned(s)), 1>>) ELSE ParseFail

\* the index of the first c in s, Len(s) + 1 when there is none
IndexOrEnd(s, c) == IF Has(s, c) THEN IndexOf(s, c) ELSE Len(s) + 1

\* s.partition(c): what stands before and after the first c
Before(s, c) == SubSeq(s, 1, IndexOrEnd(s, c) - 1)

After(s, c) == SubSeq(s, IndexOrEnd(s, c) + 1, Len(s))

\* the float with sign `sign`, integer digits ip and fraction digits fp
FloatOf(sign, ip, fp) ==
  IF /\ \A i \in 1 .. Len(ip) : ip[i] \in Digits
     /\ \A i \in 1 .. Len(fp) : fp[i] \in Digits
     /\ Len(ip) + Len(fp) >= 1
  THEN ParseOk(Fraction(sign * Nat10(ip \o fp), Pow10(Len(fp))))
  ELSE ParseFail

\* float(s) on the characters a number run can hold: an optional sign, digits with
\* at most one point, at least one digit
ParseFloat(s) == FloatOf(SignOf(s), Before(Unsigned(s), "."), After(Unsigned(s), "."))

\* the fraction with sign `sign`, numerator digits np and denominator digits dp; a
\* zero denominator raises ZeroDivisionError, which is no ValueError
FractionOf(sign, np, dp) ==
  IF IsDigitRun(np) /\ IsDigitRun(dp)
  THEN IF Nat10(dp) = 0
       THEN [ok |-> FALSE, zero |-> TRUE, num |-> sign * Nat10(np), den |-> 0]
       ELSE ParseOk(Fraction(sign * Nat10(np), Nat10(dp)))
  ELSE ParseFail

\* Fraction(s): sign? digits+ "/" digits+, or a decimal when s holds no "/"
ParseFraction(s) ==
  IF Has(s, "/")
  THEN FractionOf(SignOf(s), Before(Unsigned(s), "/"), After(Unsigned(s), "/"))
  ELSE ParseFloat(s)

\* where the digits of s from index a (1-based) on end, and where an optional point
\* and its digits after them end
DigitsEnd(s, a) == ScanWhile(s, a - 1, Digits) + 1

PointEnd(s, b) == IF b <= Len(s) /\ s[b] = "." THEN ScanWhile(s, b, Digits) + 1 ELSE b

\* the end of the float that starts at index a, whose integer digits end before b
\* and whose fraction ends before c; 0 when it holds no digit
FloatEnd(a, b, c) == IF (b - a) + (IF c > b THEN c - b - 1 ELSE 0) >= 1 THEN c - 1 ELSE 0

FloatFrom(s, a) == FloatEnd(a, DigitsEnd(s, a), PointEnd(s, DigitsEnd(s, a)))

\* the end of the longest prefix of s that strtod reads as a float: sign? digits*
\* ("." digits*)? with at least one digit; 0 when there is none
FloatPrefixEnd(s) == FloatFrom(s, IF s # <<>> /\ IsSign(s[1]) THEN 2 ELSE 1)

\* the rational a parsed float denotes
ParsedQ(f) == <<f.num, f.den>>

NotComplex == [ok |-> FALSE, re |-> <<0, 1>>, im |-> <<0, 1>>]

\* complex() after a first float `first`: r is the rest of the string, e2 the end of
\* the float r starts with
ComplexRest(first, r, e2) ==
  IF r = <<>> THEN [ok |-> TRUE, re |-> <<0, 1>>, im |-> first]
  ELSE IF ~IsSign(r[1]) THEN NotComplex
  ELSE IF e2 >= 1
  THEN IF e2 = Len(r)
       THEN [ok |-> TRUE, re |-> first, im |-> ParsedQ(ParseFloat(r))]
       ELSE NotComplex
  ELSE IF Len(r) = 1
       THEN [ok |-> TRUE, re |-> first, im |-> <<SignOf(r), 1>>]
       ELSE NotComplex

\* complex(s + "j") when the float s starts with ends at e1
ComplexFrom(s, e1, r) ==
  IF e1 = 0 THEN NotComplex
  ELSE ComplexRest(ParsedQ(ParseFloat(SubSeq(s, 1, e1))), r, FloatPrefixEnd(r))

\* complex(s + "j") for a number run s
ParseComplex(s) ==
  ComplexFrom(s, FloatPrefixEnd(s), SubSeq(s, FloatPrefixEnd(s) + 1, Len(s)))

\* the token Lexer.number returns (lines 186-218) for the run `result`, the unit
\* after it and the position p2 behind both; z, q, f and n are complex(), Fraction(),
\* float() and int() of the run
number_token(result, unit, p2, z, q, f, n) ==
  LET token == IF unit \in SEC_UNITS THEN SEC ELSE NUM
      asId == LexOk(Token(ID, result \o unit), p2)
  IN IF unit # <<>> /\ unit \notin SEC_UNITS /\ unit # <<"i">> THEN asId
     ELSE IF unit = <<"i">>
     THEN IF z.ok THEN LexOk(Token(NUM, ComplexV(z.re, z.im)), p2) ELSE asId
     ELSE IF Has(result, "/")
     THEN IF q.ok
          THEN IF q.den = 1
               THEN LexOk(Token(token, IntV(q.num)), p2)
               ELSE LexOk(Token(token, FracV(q.num, q.den)), p2)
          ELSE IF q.zero
               THEN LexFail(Raise("ZeroDivisionError", "Fraction(n, 0)", "", <<q.num>>), p2)
               ELSE asId
     ELSE IF Has(result, ".")
     THEN IF f.ok THEN LexOk(Token(token, FloatV(f.num, f.den)), p2) ELSE asId
     ELSE IF n.ok THEN LexOk(Token(token, IntV(n.num)), p2) ELSE asId

\* Lexer.number once its two loops (lines 177-184) have read the run and the unit
number_read(result, unit, p2) ==
  number_token(result, unit, p2, ParseComplex(result), ParseFraction(result),
               ParseFloat(result), ParseInt(result))

\* Lexer.number, entered at the first character of the run
number(text, pos) ==
  LET p1 == ScanWhile(text, pos, NumberChars)
      p2 == ScanUntil(text, p1, NotNorm)
  IN number_read(SubSeq(text, pos + 1, p1), SubSeq(text, p1 + 1, p2), p2)

cT == <<"t">>
cTrue == <<"t", "r", "u", "e">>
cF == <<"f">>
cFalse == <<"f", "a", "l", "s", "e">>
cNull == <<"n", "u", "l", "l">>

\* Lexer.hash_literal, entered after the "#"
hash_literal(text, pos) ==
  LET p1 == ScanUntil(text, pos, NotNorm)
      result == SubSeq(text, pos + 1, p1)
  IN IF CharAt(text, pos) = "\\"
     THEN IF CharAt(text, pos + 1) = NoChar
          THEN LexFail(MyError("Expected a character after #\\", "", <<>>), pos + 1)
          ELSE LexOk(Token(CHAR, CharV(CharAt(text, pos + 1))), pos + 2)
     ELSE IF result \in {cT, cTrue} THEN LexOk(Token(BOOL, BoolV(TRUE)), p1)
     ELSE IF result \in {cF, cFalse} THEN LexOk(Token(BOOL, BoolV(FALSE)), p1)
     ELSE LexFail(MyError("Unknown hash literal", "", <<result>>), p1)

\* Lexer.quote_literal, entered after the "'"
quote_literal(text, pos) ==
  IF CharAt(text, pos) = "(" /\ CharAt(text, pos + 1) = ")"
  THEN LexOk(Token(ID, cNull), pos + 2)
  ELSE LexFail(MyError("Unknown quote literal", "", <<>>), pos)

StartsWith(s, prefix) == Len(s) >= Len(prefix) /\ SubSeq(s, 1, Len(prefix)) = prefix

\* the backquote character, which a TLA+ string cannot hold
Backquote == "backquote"

IllegalSymbolChars == {"'", Backquote, "|", "\\"}

\* the symbol branch of get_next_token (lines 297-312)
symbol(text, pos) ==
  LET p1 == ScanUntil(text, pos, NotNorm)
      result == SubSeq(text, pos + 1, p1)
  IN IF \E i \in 1 .. Len(result) : result[i] \in IllegalSymbolChars
     THEN LexFail(MyError("Symbol has illegal character(s)", "", <<result>>), p1)
     ELSE IF \E m \in METHODS : result = m \/ StartsWith(result, Append(m, ":"))
     THEN LexOk(Token(ARR, result), p1)
     ELSE LexOk(Token(ID, result), p1)

RECURSIVE get_next_token(_, _)
\* Lexer.get_next_token with the lexer at position pos
get_next_token(text, pos) ==
  LET p == skip_whitespace(text, pos)
      c == CharAt(text, p)
  IN IF c = NoChar THEN LexOk(Token(EOF, <<>>), p)
     ELSE IF c = ";" THEN get_next_token(text, ScanUntil(text, p, {"\n"}))
     ELSE IF c = "\"" THEN string(text, p + 1)
     ELSE IF c \in Brackets THEN LexOk(Token(c, <<c>>), p + 1)
     ELSE IF IsSign(c) /\ peek(text, p) \in (Digits \cup {"."}) THEN number(text, p)
     ELSE IF c \in (Digits \cup {"."}) THEN number(text, p)
     ELSE IF c = "#" THEN hash_literal(text, p + 1)
     ELSE IF c = "'" THEN quote_literal(text, p + 1)
     ELSE symbol(text, p)

(***************************************************************************)
(* PARSER                                                                  *)
(***************************************************************************)
Compound(children) == <<"Compound", children>>
ManyOp(op, children) == <<"ManyOp", op, children>>
Var(value) == <<"Var", value>>
Num(val) == <<"Num", val>>
Bool(val) == <<"Bool", val>>
Str(val) == <<"Str", val>>
Char(val) == <<"Char", val>>
BoolArr(val) == <<"BoolArr", val>>

NodeType(node) == node[1]

\* ManyOp.op, ManyOp.children and Compound.children
NodeOp(node) == node[2]

NodeChildren(node) == IF NodeType(node) = "ManyOp" THEN node[3] ELSE node[2]

\* Var.value and the literals' val
NodeVal(node) == node[2]

cExactRound == <<"e", "x", "a", "c", "t", "-", "r", "o", "u", "n", "d">>
cStar == <<"*">>
cTimebase == <<"t", "i", "m", "e", "b", "a", "s", "e">>

Closers == {RPAREN, RBRAC, RCUR}

\* the parser: its current token and its lexer's position
ParserState(tok, pos) == [tok |-> tok, pos |-> pos]

ParseOkNode(node, ps) == [err |-> NoErr, node |-> node, tok |-> ps.tok, pos |-> ps.pos]

ParseErr(err, ps) == [err |-> err, node |-> <<>>, tok |-> ps.tok, pos |-> ps.pos]

\* Parser.__init__: the first token is read at construction
ParserInit(text) == get_next_token(text, 0)

\* Parser.eat
eat(text, ps, token_type) ==
  IF TokType(ps.tok) # token_type
  THEN [err |-> MyError("Expected, got", "", <<token_type, TokType(ps.tok)>>),
        tok |-> ps.tok, pos |-> ps.pos]
  ELSE get_next_token(text, ps.pos)

\* ManyOp(childs[0], children=childs[1:]); childs[0] of an empty list is an IndexError
MakeManyOp(childs, ps) ==
  IF childs = <<>>
  THEN ParseErr(Raise("IndexError", "list index out of range", "", <<>>), ps)
  ELSE ParseOkNode(ManyOp(childs[1], Tail(childs)), ps)

\* the desugaring of a SEC token (lines 438-448)
SecNode(value) == ManyOp(Var(cExactRound), <<ManyOp(Var(cStar), <<Num(value), Var(cTimebase)>>)>>)

Matches(type, value) ==
  CASE type = ARR -> BoolArr(value)
    [] type = BOOL -> Bool(value)
    [] type = NUM -> Num(value)
    [] type = STR -> Str(value)
    [] type = CHAR -> Char(value)

Closer(open) ==
  CASE open = LPAREN -> RPAREN
    [] open = LBRAC -> RBRAC
    [] open = LCUR -> RCUR

RECURSIVE expr(_, _)
RECURSIVE expr_loop(_, _, _, _, _)

\* the loop once self.expr() has returned or raised r: append and go on
expr_loop_next(text, stop, eofRaises, childs, r) ==
  IF IsErr(r.err)
  THEN [err |-> r.err, nodes |-> childs, tok |-> r.tok, pos |-> r.pos]
  ELSE expr_loop(text, ParserState(r.tok, r.pos), stop, eofRaises, Append(childs, r.node))

\* `while self.current_token.type not in stop: [EOF raises;] childs.append(self.expr())`
expr_loop(text, ps, stop, eofRaises, childs) ==
  IF TokType(ps.tok) \in stop
  THEN [err |-> NoErr, nodes |-> childs, tok |-> ps.tok, pos |-> ps.pos]
  ELSE IF eofRaises /\ TokType(ps.tok) = EOF
  THEN [err |-> MyError("Unexpected EOF", "", <<>>), nodes |-> childs, tok |-> ps.tok, pos |-> ps.pos]
  ELSE expr_loop_next(text, stop, eofRaises, childs, expr(text, ps))

\* lines 466-481: the list l is read; c is what self.eat(closer) gave
expr_closed(l, c) ==
  IF IsErr(l.err) THEN ParseErr(l.err, l)
  ELSE IF IsErr(c.err) THEN ParseErr(c.err, l)
  ELSE MakeManyOp(l.nodes, c)

\* lines 450-481: a bracketed form whose children l the loop has read
expr_list(text, closer, l) == expr_closed(l, eat(text, ParserState(l.tok, l.pos), closer))

\* lines 483-488: any other token type is eaten and starts a form of its own
expr_form(l) == IF IsErr(l.err) THEN ParseErr(l.err, l) ELSE MakeManyOp(l.nodes, l)

\* Parser.expr once the token ps.tok is eaten; e is what self.eat(token.type) gave
expr_token(text, ps, e) ==
  LET token == ps.tok
      type == TokType(token)
      after == ParserState(e.tok, e.pos)
  IN IF IsErr(e.err) THEN ParseErr(e.err, ps)
     ELSE IF type = ID THEN ParseOkNode(Var(TokValue(token)), after)
     ELSE IF type \in {ARR, BOOL, NUM, STR, CHAR}
     THEN ParseOkNode(Matches(type, TokValue(token)), after)
     ELSE IF type = SEC THEN ParseOkNode(SecNode(TokValue(token)), after)
     ELSE IF type \in {LPAREN, LBRAC, LCUR}
     THEN expr_list(text, Closer(type), expr_loop(text, after, {Closer(type)}, TRUE, <<>>))
     ELSE expr_form(expr_loop(text, after, Closers \cup {EOF}, FALSE, <<>>))

\* Parser.expr
expr(text, ps) == expr_token(text, ps, eat(text, ps, TokType(ps.tok)))

\* Parser.comp once its loop has read the list l
comp_done(l) == IF IsErr(l.err) THEN ParseErr(l.err, l) ELSE ParseOkNode(Compound(l.nodes), l)

\* Parser.comp
comp(text, ps) == comp_done(expr_loop(text, ps, Closers \cup {EOF}, FALSE, <<>>))

\* Parser(lexer).comp() when Parser.__init__ got `first` from the lexer
parse_from(text, first) ==
  IF IsErr(first.err) THEN ParseErr(first.err, first)
  ELSE comp(text, ParserState(first.tok, first.pos))

\* Parser(Lexer(text)).comp(): what reading a whole source yields
parse_program(text) == parse_from(text, ParserInit(text))

(***************************************************************************)
(* STANDARD LIBRARY                                                        *)
(***************************************************************************)
\* the `None` upper end of an arity range and the `None` of undeclared contracts
NoUpper == -1

NoContracts == <<>>

IsArrayV(v) == Tag(v) = "arr"

is_boolarr(v) == Tag(v) = "arr"
is_bool(v) == Tag(v) = "bool"
is_num(v) == Tag(v) \in {"int", "float", "frac", "complex"}
is_pair(v) == Tag(v) = "cons"
is_real(v) == Tag(v) \in {"int", "float", "frac"}
is_eint(v) == Tag(v) = "int"
\* lines 586-590: a float or a Fraction with an integral value, an int, a bool
is_int(v) ==
  \/ Tag(v) \in {"int", "bool"}
  \/ Tag(v) \in {"float", "frac"} /\ v[3] = 1
is_str(v) == Tag(v) = "str"
is_char(v) == Tag(v) = "char"

\* a contract, named by its docstring, applied to a value
Check(doc, v) ==
  CASE doc = "boolarr?" -> is_boolarr(v)
    [] doc = "boolean?" -> is_bool(v)
    [] doc = "number?" -> is_num(v)
    [] doc = "pair?" -> is_pair(v)
    [] doc = "real?" -> is_real(v)
    [] doc = "exact-integer?" -> is_eint(v)
    [] doc = "integer?" -> is_int(v)
    [] doc = "string?" -> is_str(v)
    [] doc = "char?" -> is_char(v)

ArityFixed == "Arity mismatch. Expected"
ArityAtLeast == "Arity mismatch. Expected at least"
ArityBetween == "Arity mismatch. Expected between"
WrongType == "expects:"

\* ContractAt with types[0] in the place of types[-1]
ContractAtFirst(types, i) == IF i > Len(types) THEN types[1] ELSE types[i]

\* the contract checked at 1-based position i: the last one past the declared list
ContractAt(types, i) == IF i > Len(types) THEN types[Len(types)] ELSE types[i]

\* check_args: the exception it raises, NoErr when it returns
check_args(o, values, arity, types) ==
  LET lower == arity[1]
      upper == arity[2]
      amount == Len(values)
  IN IF upper # NoUpper /\ lower > upper
     THEN Raise("ValueError", "lower must be less than upper", "", <<>>)
     ELSE IF lower = upper /\ amount # lower
     THEN MyError(ArityFixed, o, <<lower, amount>>)
     ELSE IF upper = NoUpper /\ amount < lower
     THEN MyError(ArityAtLeast, o, <<lower, amount>>)
     ELSE IF upper # NoUpper /\ (amount > upper \/ amount < lower)
     THEN MyError(ArityBetween, o, <<lower, upper, amount>>)
     ELSE IF types = NoContracts THEN NoErr
     ELSE IF \E i \in 1 .. amount : ~Check(ContractAt(types, i), values[i])
     THEN MyError(WrongType, o, types)
     ELSE NoErr

\* the dataclass Proc; its callable is call_proc's case for the table key
Proc(name, lower, upper, contracts) ==
  [name |-> name, arity |-> <<lower, upper>>, contracts |-> contracts]

\* the source spelling of each modelled entry of GLOBAL_SCOPE
NameChars ==
  ("begin" :> <<"b", "e", "g", "i", "n">>) @@
  ("display" :> <<"d", "i", "s", "p", "l", "a", "y">>) @@
  ("error" :> <<"e", "r", "r", "o", "r">>) @@
  (">" :> <<">">>) @@
  (">=" :> <<">", "=">>) @@
  ("<" :> <<"<">>) @@
  ("<=" :> <<"<", "=">>) @@
  ("=" :> <<"=">>) @@
  ("not" :> <<"n", "o", "t">>) @@
  ("and" :> <<"a", "n", "d">>) @@
  ("or" :> <<"o", "r">>) @@
  ("xor" :> <<"x", "o", "r">>) @@
  ("number?" :> <<"n", "u", "m", "b", "e", "r", "?">>) @@
  ("boolean?" :> <<"b", "o", "o", "l", "e", "a", "n", "?">>) @@
  ("string?" :> <<"s", "t", "r", "i", "n", "g", "?">>) @@
  ("string" :> <<"s", "t", "r", "i", "n", "g">>) @@
  ("string-append" :> <<"s", "t", "r", "i", "n", "g", "-", "a", "p", "p", "e", "n", "d">>) @@
  ("string-upcase" :> <<"s", "t", "r", "i", "n", "g", "-", "u", "p", "c", "a", "s", "e">>) @@
  ("string-length" :> <<"s", "t", "r", "i", "n", "g", "-", "l", "e", "n", "g", "t", "h">>) @@
  ("string-ref" :> <<"s", "t", "r", "i", "n", "g", "-", "r", "e", "f">>) @@
  ("+" :> <<"+">>) @@
  ("-" :> <<"-">>) @@
  ("*" :> <<"*">>) @@
  ("/" :> <<"/">>) @@
  ("add1" :> <<"a", "d", "d", "1">>) @@
  ("mod" :> <<"m", "o", "d">>) @@
  ("modulo" :> <<"m", "o", "d", "u", "l", "o">>) @@
  ("exact-round" :> <<"e", "x", "a", "c", "t", "-", "r", "o", "u", "n", "d">>) @@
  ("margin" :> <<"m", "a", "r", "g", "i", "n">>) @@
  ("mcut" :> <<"m", "c", "u", "t">>) @@
  ("mincut" :> <<"m", "i", "n", "c", "u", "t">>) @@
  ("mclip" :> <<"m", "c", "l", "i", "p">>) @@
  ("minclip" :> <<"m", "i", "n", "c", "l", "i", "p">>) @@
  ("cook" :> <<"c", "o", "o", "k">>) @@
  ("boolarr" :> <<"b", "o", "o", "l", "a", "r", "r">>) @@
  ("count-nonzero" :> <<"c", "o", "u", "n", "t", "-", "n", "o", "n", "z", "e", "r", "o">>) @@
  ("boolarr?" :> <<"b", "o", "o", "l", "a", "r", "r", "?">>)

\* the Proc entries of Interpreter.GLOBAL_SCOPE that the model carries, by key
Procs ==
  ("begin" :> Proc("begin", 0, NoUpper, NoContracts)) @@
  ("display" :> Proc("display", 1, 1, NoContracts)) @@
  ("error" :> Proc("error", 1, 1, <<"string?">>)) @@
  (">" :> Proc(">", 2, 2, <<"real?", "real?">>)) @@
  (">=" :> Proc(">=", 2, 2, <<"real?", "real?">>)) @@
  ("<" :> Proc("<", 2, 2, <<"real?", "real?">>)) @@
  ("<=" :> Proc("<=", 2, 2, <<"real?", "real?">>)) @@
  ("=" :> Proc("=", 1, NoUpper, <<"number?">>)) @@
  ("not" :> Proc("not", 1, 1, NoContracts)) @@
  ("and" :> Proc("and", 1, NoUpper, NoContracts)) @@
  ("or" :> Proc("or", 1, NoUpper, NoContracts)) @@
  ("xor" :> Proc("xor", 2, NoUpper, NoContracts)) @@
  ("number?" :> Proc("number?", 1, 1, NoContracts)) @@
  ("boolean?" :> Proc("boolean?", 1, 1, NoContracts)) @@
  ("string?" :> Proc("string?", 1, 1, NoContracts)) @@
  ("string" :> Proc("string", 0, NoUpper, <<"char?">>)) @@
  ("string-append" :> Proc("string-append", 0, NoUpper, <<"string?">>)) @@
  ("string-upcase" :> Proc("string-upcase", 1, 1, <<"string?">>)) @@
  ("string-length" :> Proc("string-length", 1, 1, <<"string?">>)) @@
  ("string-ref" :> Proc("string-ref", 2, 2, <<"string?", "exact-integer?">>)) @@
  ("+" :> Proc("+", 0, NoUpper, <<"number?">>)) @@
  ("-" :> Proc("-", 1, NoUpper, <<"number?">>)) @@
  ("*" :> Proc("*", 0, NoUpper, <<"number?">>)) @@
  ("/" :> Proc("/", 1, NoUpper, <<"number?">>)) @@
  ("add1" :> Proc("add1", 1, 1, <<"number?">>)) @@
  ("mod" :> Proc("mod", 2, 2, <<"integer?", "integer?">>)) @@
  ("modulo" :> Proc("modulo", 2, 2, <<"integer?", "integer?">>)) @@
  ("exact-round" :> Proc("exact-round", 1, 1, <<"real?">>)) @@
  ("margin" :> Proc("margin", 2, 3, NoContracts)) @@
  ("mcut" :> Proc("mincut", 2, 2, <<"exact-integer?", "boolarr?">>)) @@
  ("mincut" :> Proc("mincut", 2, 2, <<"exact-integer?", "boolarr?">>)) @@
  ("mclip" :> Proc("minclip", 2, 2, <<"exact-integer?", "boolarr?">>)) @@
  ("minclip" :> Proc("minclip", 2, 2, <<"exact-integer?", "boolarr?">>)) @@
  ("cook" :> Proc("cook", 3, 3, <<"exact-integer?", "exact-integer?", "boolarr?">>)) @@
  ("boolarr" :> Proc("boolarr", 1, NoUpper, <<"exact-integer?">>)) @@
  ("count-nonzero" :> Proc("count-nonzero", 1, 1, <<"boolarr?">>)) @@
  ("boolarr?" :> Proc("boolarr?", 1, 1, NoContracts))

ProcIds == DOMAIN Procs

(* ---- the numeric tower: int, Fraction and float operands ---- *)
\* the rational a real value denotes
NumQ(v) == IF Tag(v) = "int" THEN <<v[2], 1>> ELSE <<v[2], v[3]>>

\* Python's result type for an arithmetic operator on two reals
JoinKind(a, b) ==
  IF Tag(a) = "float" \/ Tag(b) = "float" THEN "float"
  ELSE IF Tag(a) = "frac" \/ Tag(b) = "frac" THEN "frac"
  ELSE "int"

MakeNum(kind, q) ==
  CASE kind = "int" -> IntV(q[1])
    [] kind = "frac" -> FracV(q[1], q[2])
    [] kind = "float" -> FloatV(q[1], q[2])

QAdd(a, b) == Fraction(a[1] * b[2] + b[1] * a[2], a[2] * b[2])
QSub(a, b) == Fraction(a[1] * b[2] - b[1] * a[2], a[2] * b[2])
QMul(a, b) == Fraction(a[1] * b[1], a[2] * b[2])
\* for b # 0
QDiv(a, b) == Fraction(a[1] * b[2], a[2] * b[1])
QLess(a, b) == a[1] * b[2] < b[1] * a[2]

PyAdd(a, b) == MakeNum(JoinKind(a, b), QAdd(NumQ(a), NumQ(b)))
PySub(a, b) == MakeNum(JoinKind(a, b), QSub(NumQ(a), NumQ(b)))
PyMul(a, b) == MakeNum(JoinKind(a, b), QMul(NumQ(a), NumQ(b)))
\* Fraction(a, b) of exact operands
PyFraction(a, b) == LET q == QDiv(NumQ(a), NumQ(b)) IN FracV(q[1], q[2])
\* a / b with a float operand
PyTrueDiv(a, b) == LET q == QDiv(NumQ(a), NumQ(b)) IN FloatV(q[1], q[2])
\* a == b on reals
PyNumEq(a, b) == NumQ(a) = NumQ(b)

\* the integer an argument that passed is_int stands for: True is 1 and False is 0
IntOf(v) == IF Tag(v) = "bool" THEN (IF v[2] THEN 1 ELSE 0) ELSE v[2]

\* the remainder of x by y # 0 with the sign of y
FloorMod(x, y) ==
  LET r == x % Abs(y)
  IN IF y < 0 /\ r # 0 THEN r - Abs(y) ELSE r

\* a % b on arguments that passed is_int: Python raises ZeroDivisionError when b is 0
PyMod(a, b) ==
  IF IntOf(b) = 0
  THEN [err |-> Raise("ZeroDivisionError", "integer division or modulo by zero", "", <<>>),
        val |-> None]
  ELSE [err |-> NoErr, val |-> MakeNum(JoinKind(a, b), <<FloorMod(IntOf(a), IntOf(b)), 1>>)]

\* round(x) of the rational q, denominator positive: the nearest integer, a tie going
\* to the even one
PyRound(q) ==
  LET fl == q[1] \div q[2]
      twice == 2 * (q[1] - fl * q[2])
  IN IF twice < q[2] THEN fl
     ELSE IF twice > q[2] THEN fl + 1
     ELSE IF fl % 2 = 0 THEN fl
     ELSE fl + 1

\* what a procedure's callable hands back: a value, or an exception; out is stdout
Ret(val, out) == [err |-> NoErr, val |-> val, out |-> out]

Fail(err, out) == [err |-> err, val |-> None, out |-> out]

(* ---- boolean arrays ---- *)
\* np.resize(arr, n): arr repeated cyclically to length n
Tile(bits, n) == [i \in 1 .. n |-> IF bits = <<>> THEN FALSE ELSE bits[((i - 1) % Len(bits)) + 1]]

\* np.logical_and, np.logical_or, np.logical_xor on one pair of entries
Logical(op, x, y) ==
  CASE op = "and" -> x /\ y
    [] op = "or" -> x \/ y
    [] op = "xor" -> x # y

\* auto_editor.utils.func.boolop: the shorter array is tiled to the longer one's length
boolop(a, b, op) ==
  LET n == IF Len(a[2]) > Len(b[2]) THEN Len(a[2]) ELSE Len(b[2])
      x == Tile(a[2], n)
      y == Tile(b[2], n)
  IN ArrV([i \in 1 .. n |-> Logical(op, x[i], y[i])])

\* the lambdas handed to reduce
ArrAnd(a, b) == boolop(a, b, "and")
ArrOr(a, b) == boolop(a, b, "or")
ArrXor(a, b) == boolop(a, b, "xor")
BoolAnd(a, b) == BoolV(a[2] /\ b[2])
BoolOr(a, b) == BoolV(a[2] \/ b[2])
BoolXor(a, b) == BoolV(a[2] # b[2])

\* the text a str or CharType argument adds to a str
TextOf(v) == IF Tag(v) = "char" THEN <<v[2]>> ELSE v[2]

StrConcat(a, b) == StrV(a[2] \o TextOf(b))

(* ---- reduce ---- *)
\* the two-argument callable named f, applied
Call2(f, a, b) ==
  CASE f = "PyAdd" -> PyAdd(a, b)
    [] f = "PySub" -> PySub(a, b)
    [] f = "PyMul" -> PyMul(a, b)
    [] f = "PyFraction" -> PyFraction(a, b)
    [] f = "PyTrueDiv" -> PyTrueDiv(a, b)
    [] f = "ArrAnd" -> ArrAnd(a, b)
    [] f = "ArrOr" -> ArrOr(a, b)
    [] f = "ArrXor" -> ArrXor(a, b)
    [] f = "BoolAnd" -> BoolAnd(a, b)
    [] f = "BoolOr" -> BoolOr(a, b)
    [] f = "BoolXor" -> BoolXor(a, b)
    [] f = "StrConcat" -> StrConcat(a, b)

RECURSIVE Reduce(_, _, _)
\* reduce(f, vals, init)
Reduce(f, vals, init) ==
  IF vals = <<>> THEN init ELSE Reduce(f, Tail(vals), Call2(f, init, vals[1]))

(* ---- arithmetic ---- *)
\* lambda *v: sum(v)
sum(vals) == Reduce("PyAdd", vals, IntV(0))

mul(vals) == Reduce("PyMul", vals, IntV(1))

minus(vals) ==
  IF Len(vals) = 1 THEN PySub(IntV(0), vals[1])
  ELSE Reduce("PySub", Tail(vals), vals[1])

\* `if result.denominator == 1: return result.numerator`
FracOrInt(v) == IF NumQ(v)[2] = 1 THEN IntV(NumQ(v)[1]) ELSE v

div(vals0) ==
  LET vals == IF Len(vals0) = 1 THEN <<IntV(1), vals0[1]>> ELSE vals0
      inexact == \E i \in 1 .. Len(vals) : Tag(vals[i]) \in {"float", "complex"}
      zero == \E i \in 2 .. Len(vals) : NumQ(vals[i])[1] = 0
  IN IF zero THEN [err |-> MyError("division by zero", "", <<>>), val |-> None]
     ELSE IF ~inexact
     THEN [err |-> NoErr, val |-> FracOrInt(Reduce("PyFraction", Tail(vals), vals[1]))]
     ELSE [err |-> NoErr, val |-> Reduce("PyTrueDiv", Tail(vals), vals[1])]

equal_num(vals) == \A i \in 2 .. Len(vals) : PyNumEq(vals[1], vals[i])

_not(vals) ==
  LET val == vals[1]
  IN IF is_boolarr(val) THEN [err |-> NoErr, val |-> ArrV([i \in 1 .. Len(val[2]) |-> ~val[2][i]])]
     ELSE IF is_bool(val) THEN [err |-> NoErr, val |-> BoolV(~val[2])]
     ELSE [err |-> MyError("not expects: boolean? or boolarr?", "", <<>>), val |-> None]

\* the shape shared by _and, _or and _xor (o names which): a second check_args
\* inside the callable, then reduce
BoolOrArrayOp(o, vals, boolLower) ==
  LET arrErr == check_args(o, vals, <<2, NoUpper>>, <<"boolarr?">>)
      boolErr == check_args(o, vals, <<boolLower, NoUpper>>, <<"boolean?">>)
      onArrs == CASE o = "and" -> "ArrAnd" [] o = "or" -> "ArrOr" [] o = "xor" -> "ArrXor"
      onBools == CASE o = "and" -> "BoolAnd" [] o = "or" -> "BoolOr" [] o = "xor" -> "BoolXor"
  IN IF is_boolarr(vals[1])
     THEN IF IsErr(arrErr) THEN [err |-> arrErr, val |-> None]
          ELSE [err |-> NoErr, val |-> Reduce(onArrs, Tail(vals), vals[1])]
     ELSE IF IsErr(boolErr) THEN [err |-> boolErr, val |-> None]
          ELSE [err |-> NoErr, val |-> Reduce(onBools, Tail(vals), vals[1])]

_and(vals) == BoolOrArrayOp("and", vals, 1)

_or(vals) == BoolOrArrayOp("or", vals, 1)

_xor(vals) == BoolOrArrayOp("xor", vals, 2)

(* ---- strings ---- *)
LowerCase == <<"a", "b", "c", "d", "e", "f", "g", "h", "i", "j", "k", "l", "m",
               "n", "o", "p", "q", "r", "s", "t", "u", "v", "w", "x", "y", "z">>

UpperCase == <<"A", "B", "C", "D", "E", "F", "G", "H", "I", "J", "K", "L", "M",
               "N", "O", "P", "Q", "R", "S", "T", "U", "V", "W", "X", "Y", "Z">>

\* str.upper on the ASCII letters
Upper(c) ==
  IF \E i \in 1 .. 26 : LowerCase[i] = c
  THEN UpperCase[CHOOSE i \in 1 .. 26 : LowerCase[i] = c]
  ELSE c

string_append(vals) == Reduce("StrConcat", vals, StrV(<<>>))

\* s[ref] accepts the indices -len(s) .. len(s) - 1
string_ref(s, ref) ==
  LET n == Len(s[2])
      k == ref[2]
  IN IF k >= 0 /\ k < n THEN [err |-> NoErr, val |-> CharV(s[2][k + 1])]
     ELSE IF k < 0 /\ k >= -n THEN [err |-> NoErr, val |-> CharV(s[2][n + k + 1])]
     ELSE [err |-> MyError("string index is out of range", "", <<k>>), val |-> None]

(***************************************************************************)
(* The procedures that edit boolean arrays.  A numpy array is an object    *)
(* and a procedure is handed references, so a parameter is                 *)
(* [at |-> i, v |-> value]: the object operand i evaluated to, with at = 0 *)
(* for an object made during the call.  Such a procedure gives             *)
(* [err, ref, args]: what it raised, the object it returned, and the       *)
(* contents of the objects of its operands when it is over.                *)
(***************************************************************************)
ArgRef(values, i) == [at |-> i, v |-> values[i]]

EditOk(ref, args) == [err |-> NoErr, ref |-> ref, args |-> args]

EditFail(err, args) == [err |-> err, ref |-> [at |-> 0, v |-> None], args |-> args]

\* np.copy(a): a new object with the contents of a
np_copy(a) == [at |-> 0, v |-> a.v]

\* arr[...] = ...: the contents of the object arr refers to become bits; when that
\* object is the one of an operand, it is the operand's array that changes
Stored(arr, bits, args) ==
  EditOk([arr EXCEPT !.v = ArrV(bits)],
         [i \in DOMAIN args |-> IF i = arr.at THEN ArrV(bits) ELSE args[i]])

RECURSIVE RunEnd(_, _)
\* the index after the run of equal elements that starts at i
RunEnd(bits, i) ==
  IF i < Len(bits) /\ bits[i + 1] = bits[i] THEN RunEnd(bits, i + 1) ELSE i + 1

RECURSIVE remove_scan(_, _, _, _, _)
\* the scan of remove_small from index i on
remove_scan(bits, i, lim, replace, with_) ==
  IF i > Len(bits) THEN bits
  ELSE IF bits[i] # replace THEN remove_scan(bits, i + 1, lim, replace, with_)
  ELSE remove_scan(IF RunEnd(bits, i) - i < lim
                   THEN [k \in DOMAIN bits |-> IF k >= i /\ k < RunEnd(bits, i) THEN with_ ELSE bits[k]]
                   ELSE bits,
                   RunEnd(bits, i), lim, replace, with_)

\* utils.func.remove_small(arr, lim, replace, with_): every maximal run of `replace`
\* shorter than lim is overwritten with `with_`, in arr itself, which is returned; it
\* walks arr and compares run lengths with lim, which what is no array or no
\* integer does not support
remove_small(arr, lim, replace, with_, args) ==
  IF ~is_boolarr(arr.v) \/ ~is_eint(lim.v)
  THEN EditFail(Raise("TypeError", "iteration over a 0-d array", "", <<>>), args)
  ELSE Stored(arr, remove_scan(arr.v[2], 1, lim.v[2], replace, with_), args)

\* utils.func.apply_margin(arr, arrlen, start, end): every maximal run of true is
\* extended by start frames before its first index and by end frames after its last
\* one, within the array, in arr itself, which is returned
apply_margin(arr, arrlen, start, end, args) ==
  Stored(arr,
         [i \in 1 .. arrlen |->
            \E j \in 1 .. arrlen :
               /\ arr.v[2][j]
               /\ \/ i = j
                  \/ (j = 1 \/ ~arr.v[2][j - 1]) /\ i < j /\ i >= j - start.v[2]
                  \/ (j = arrlen \/ ~arr.v[2][j + 1]) /\ i > j /\ i <= j + end.v[2]],
         args)

\* utils.func.cook(arr, min_clip, min_cut): minclip, then mincut
cook_from(clipped, min_cut) ==
  IF IsErr(clipped.err) THEN clipped
  ELSE remove_small(clipped.ref, min_cut, FALSE, TRUE, clipped.args)

cook(arr, min_clip, min_cut, args) == cook_from(remove_small(arr, min_clip, TRUE, FALSE, args), min_cut)

\* lines 718-719
minclip(arr, _min, args) == remove_small(np_copy(arr), _min, TRUE, FALSE, args)

\* lines 722-723
mincut(arr, _min, args) == remove_small(np_copy(arr), _min, FALSE, TRUE, args)

\* margin2 with the margin applied before the runs only
margin2_before_only(a, b, args) ==
  LET e == check_args("margin", <<a.v, b.v>>, <<2, 2>>, <<"exact-integer?", "boolarr?">>)
  IN IF IsErr(e) THEN EditFail(e, args)
     ELSE apply_margin(np_copy(b), Len(b.v[2]), a, [at |-> 0, v |-> IntV(0)], args)

\* lines 726-735, c is None
margin2(a, b, args) ==
  LET e == check_args("margin", <<a.v, b.v>>, <<2, 2>>, <<"exact-integer?", "boolarr?">>)
  IN IF IsErr(e) THEN EditFail(e, args) ELSE apply_margin(np_copy(b), Len(b.v[2]), a, a, args)

\* lines 726-735, c is not None
margin3(a, b, c, args) ==
  LET e == check_args("margin", <<a.v, b.v, c.v>>, <<3, 3>>,
                      <<"exact-integer?", "exact-integer?", "boolarr?">>)
  IN IF IsErr(e) THEN EditFail(e, args) ELSE apply_margin(np_copy(c), Len(c.v[2]), a, b, args)

\* margin(a, b, c=None)
margin(args) ==
  IF Len(args) = 2 \/ args[3] = None
  THEN margin2(ArgRef(args, 1), ArgRef(args, 2), args)
  ELSE margin3(ArgRef(args, 1), ArgRef(args, 2), ArgRef(args, 3), args)

\* cook_lambda handing a and b to cook in the order it received them
cook_lambda_unswapped(a, b, c, args) == cook(np_copy(c), a, b, args)

\* cook_lambda without the copy: cook works on the caller's array
cook_lambda_in_place(a, b, c, args) == cook(c, b, a, args)

\* lines 886-891: lambda a, b, c: cook(np.copy(c), b, a)
cook_lambda(a, b, c, args) == cook(np_copy(c), b, a, args)

\* the keys of the table whose procedure edits an array
EditProcs == {"margin", "mcut", "mincut", "mclip", "minclip", "cook"}

\* oper.proc(*values) for those keys
edit_proc(key, values) ==
  CASE key = "margin" -> margin(values)
    [] key \in {"mcut", "mincut"} -> mincut(ArgRef(values, 1), ArgRef(values, 2), values)
    [] key \in {"mclip", "minclip"} -> minclip(ArgRef(values, 1), ArgRef(values, 2), values)
    [] key = "cook" ->
         cook_lambda(ArgRef(values, 1), ArgRef(values, 2), ArgRef(values, 3), values)

\* what the call r did to the objects of its operands: their contents when it is
\* over, and the operand whose object it returned (0 when it returned none of them)
effects_of(r) == [args |-> r.args, at |-> r.ref.at]

\* the same for oper.proc(*values) of any key, once check_args has let the call through
effects(key, values) ==
  IF key \in EditProcs
     /\ ~IsErr(check_args(Procs[key].name, values, Procs[key].arity, Procs[key].contracts))
  THEN effects_of(edit_proc(key, values))
  ELSE [args |-> values, at |-> 0]

\* what the call gives the evaluator
edited(r, out) == [err |-> r.err, val |-> r.ref.v, out |-> out]

\* oper.proc(*values) for the table entry `key`, with stdout `out`
call_proc(key, values, out) ==
  LET pure(r) == [err |-> r.err, val |-> r.val, out |-> out]
  IN CASE key = "begin" -> Ret(IF values = <<>> THEN None ELSE values[Len(values)], out)
       [] key = "display" ->
            IF values[1] = None THEN Ret(None, out)
            ELSE Ret(None, Append(out, <<"display", values[1]>>))
       [] key = "error" -> Fail(MyError("(raise_)", "", <<values[1][2]>>), out)
       [] key = ">" -> Ret(BoolV(QLess(NumQ(values[2]), NumQ(values[1]))), out)
       [] key = ">=" -> Ret(BoolV(~QLess(NumQ(values[1]), NumQ(values[2]))), out)
       [] key = "<" -> Ret(BoolV(QLess(NumQ(values[1]), NumQ(values[2]))), out)
       [] key = "<=" -> Ret(BoolV(~QLess(NumQ(values[2]), NumQ(values[1]))), out)
       [] key = "=" -> Ret(BoolV(equal_num(values)), out)
       [] key = "not" -> pure(_not(values))
       [] key = "and" -> pure(_and(values))
       [] key = "or" -> pure(_or(values))
       [] key = "xor" -> pure(_xor(values))
       [] key = "number?" -> Ret(BoolV(is_num(values[1])), out)
       [] key = "boolean?" -> Ret(BoolV(is_bool(values[1])), out)
       [] key = "string?" -> Ret(BoolV(is_str(values[1])), out)
       [] key = "boolarr?" -> Ret(BoolV(is_boolarr(values[1])), out)
       [] key = "string" -> Ret(string_append(values), out)
       [] key = "string-append" -> Ret(string_append(values), out)
       [] key = "string-upcase" ->
            Ret(StrV([i \in 1 .. Len(values[1][2]) |-> Upper(values[1][2][i])]), out)
       [] key = "string-length" -> Ret(IntV(Len(values[1][2])), out)
       [] key = "string-ref" -> pure(string_ref(values[1], values[2]))
       [] key = "+" -> Ret(sum(values), out)
       [] key = "-" -> Ret(minus(values), out)
       [] key = "*" -> Ret(mul(values), out)
       [] key = "/" -> pure(div(values))
       [] key = "add1" -> Ret(PyAdd(values[1], IntV(1)), out)
       [] key \in {"mod", "modulo"} -> pure(PyMod(values[1], values[2]))
       [] key = "exact-round" -> Ret(IntV(PyRound(NumQ(values[1]))), out)
       [] key \in EditProcs -> edited(edit_proc(key, values), out)
       [] key = "boolarr" -> Ret(ArrV([i \in 1 .. Len(values) |-> values[i][2] # 0]), out)
       [] key = "count-nonzero" ->
            Ret(IntV(Cardinality({i \in 1 .. Len(values[1][2]) : values[1][2][i]})), out)

\* lines 960-961: check_args(oper.name, values, oper.arity, oper.contracts), then
\* oper.proc(*values)
apply_proc(key, values, out) ==
  LET oper == Procs[key]
      e == check_args(oper.name, values, oper.arity, oper.contracts)
  IN IF IsErr(e) THEN Fail(e, out) ELSE call_proc(key, values, out)

(***************************************************************************)
(* INTERPRETER                                                             *)
(***************************************************************************)
cIf == <<"i", "f">>
cWhen == <<"w", "h", "e", "n">>
cDefine == <<"d", "e", "f", "i", "n", "e">>
cSetBang == <<"s", "e", "t", "!">>
cPi == <<"p", "i">>

\* FileSetup: the timebase and, standing for the media behind src, the per-frame
\* verdict the analysis collaborator gives it; filesetup is None when no input
NoFileSetup == [present |-> FALSE, tb |-> <<0, 1>>, levels |-> <<>>]

FileSetup(tb, levels) == [present |-> TRUE, tb |-> tb, levels |-> levels]

\* auto_editor.analyze.edit_method: `none` and `all` are constant arrays over the
\* frames of the media, the analysing methods give the media's verdict
edit_method(val, filesetup) ==
  LET n == Len(filesetup.levels)
  IN IF val = cNone THEN ArrV([i \in 1 .. n |-> FALSE])
     ELSE IF val = cAll THEN ArrV([i \in 1 .. n |-> TRUE])
     ELSE ArrV(filesetup.levels)

\* the class attribute Interpreter.GLOBAL_SCOPE as the class body leaves it (the
\* modelled entries); math.pi is cut to six digits
SeedBindings ==
  {<<NameChars[k], ProcV(k)>> : k \in ProcIds}
    \cup {<<cTrue, BoolV(TRUE)>>, <<cFalse, BoolV(FALSE)>>, <<cNull, NullV>>,
          <<cPi, FloatV(314159, 100000)>>}

SeedScope ==
  [n \in {b[1] : b \in SeedBindings} |-> (CHOOSE b \in SeedBindings : b[1] = n)[2]]

\* dict.get(name) and dict[name] = val
DictGet(scope, name) == IF name \in DOMAIN scope THEN scope[name] ELSE None

DictSet(scope, name, val) ==
  [n \in DOMAIN scope \cup {name} |-> IF n = name THEN val ELSE scope[n]]

\* Interpreter.__init__: self.GLOBAL_SCOPE["timebase"] = ... stores into the dict of
\* the class, the only one there is; the result is GLOBAL_SCOPE after construction
InterpreterInit(scope, filesetup) ==
  IF filesetup.present
  THEN DictSet(scope, cTimebase, FracV(filesetup.tb[1], filesetup.tb[2]))
  ELSE scope

\* The evaluator's state: GLOBAL_SCOPE, what was written to stdout, and a history
\* of the calls of visit: <<"enter", path>> when visit is called on the node at
\* path, <<"exit", path, value>> when that call returns.  A path is the list of
\* child indices from the root; index 0 is a ManyOp's op.
EvalState(scope, out, trace) == [scope |-> scope, out |-> out, trace |-> trace]

VRet(val, st) == [err |-> NoErr, val |-> val, st |-> st]

VFail(err, st) == [err |-> err, val |-> None, st |-> st]

ListV(vals) == <<"list", vals>>

RECURSIVE visit(_, _, _, _)
RECURSIVE visit_each(_, _, _, _, _, _)

\* visit_each with a child's exception swallowed: the list goes on with the next child
visit_each_skipping(children, k, path, fs, st, vals) ==
  IF k > Len(children) THEN [err |-> NoErr, vals |-> vals, st |-> st]
  ELSE LET r == visit(children[k], Append(path, k), fs, st)
       IN IF IsErr(r.err) THEN visit_each(children, k + 1, path, fs, r.st, vals)
          ELSE visit_each(children, k + 1, path, fs, r.st, Append(vals, r.val))

\* [self.visit(child) for child in children], from the k-th child on
visit_each(children, k, path, fs, st, vals) ==
  IF k > Len(children) THEN [err |-> NoErr, vals |-> vals, st |-> st]
  ELSE LET r == visit(children[k], Append(path, k), fs, st)
       IN IF IsErr(r.err) THEN [err |-> r.err, vals |-> vals, st |-> r.st]
          ELSE visit_each(children, k + 1, path, fs, r.st, Append(vals, r.val))

\* lines 910-914
visit_var(node, st) ==
  LET val == DictGet(st.scope, NodeVal(node))
  IN IF val = None THEN VFail(MyError("is undefined", "", <<NodeVal(node)>>), st)
     ELSE VRet(val, st)

\* lines 916-919
visit_boolarr(node, fs, st) ==
  IF ~fs.present
  THEN VFail(MyError("Can't use edit methods if there's no input files", "", <<>>), st)
  ELSE VRet(edit_method(NodeVal(node), fs), st)

\* visit_if with both branches evaluated before the test value selects one
visit_if_eager(node, path, fs, st) ==
  LET children == NodeChildren(node)
      a == check_args("if", children, <<3, 3>>, NoContracts)
      t == visit(children[1], Append(path, 1), fs, st)
      x == visit(children[2], Append(path, 2), fs, t.st)
      y == visit(children[3], Append(path, 3), fs, x.st)
  IN IF IsErr(a) THEN VFail(a, st)
     ELSE IF IsErr(t.err) THEN t
     ELSE IF ~is_bool(t.val)
     THEN VFail(MyError("test-expr arg must be: boolean?", "if", <<>>), t.st)
     ELSE IF IsErr(x.err) THEN x
     ELSE IF IsErr(y.err) THEN y
     ELSE IF t.val[2] THEN VRet(x.val, y.st)
     ELSE y

\* lines 923-930
visit_if(node, path, fs, st) ==
  LET children == NodeChildren(node)
      a == check_args("if", children, <<3, 3>>, NoContracts)
      t == visit(children[1], Append(path, 1), fs, st)
  IN IF IsErr(a) THEN VFail(a, st)
     ELSE IF IsErr(t.err) THEN t
     ELSE IF ~is_bool(t.val)
     THEN VFail(MyError("test-expr arg must be: boolean?", "if", <<>>), t.st)
     ELSE IF t.val[2] THEN visit(children[2], Append(path, 2), fs, t.st)
     ELSE visit(children[3], Append(path, 3), fs, t.st)

\* lines 932-939
visit_when(node, path, fs, st) ==
  LET children == NodeChildren(node)
      a == check_args("when", children, <<2, 2>>, NoContracts)
      t == visit(children[1], Append(path, 1), fs, st)
  IN IF IsErr(a) THEN VFail(a, st)
     ELSE IF IsErr(t.err) THEN t
     ELSE IF ~is_bool(t.val)
     THEN VFail(MyError("test-expr arg must be: boolean?", "when", <<>>), t.st)
     ELSE IF t.val[2] THEN visit(children[2], Append(path, 2), fs, t.st)
     ELSE VRet(None, t.st)

\* lines 941-954; name is cDefine or cSetBang
visit_define(node, name, path, fs, st) ==
  LET children == NodeChildren(node)
      a == check_args(IF name = cDefine THEN "define" ELSE "set!", children, <<2, 2>>, NoContracts)
      var_name == NodeVal(children[1])
      r == visit(children[2], Append(path, 2), fs, st)
  IN IF IsErr(a) THEN VFail(a, st)
     ELSE IF NodeType(children[1]) # "Var"
     THEN VFail(MyError("Variable must be set with a symbol", "", <<>>), st)
     ELSE IF name = cSetBang /\ var_name \notin DOMAIN st.scope
     THEN VFail(MyError("Cannot set variable before definition", "", <<var_name>>), st)
     ELSE IF IsErr(r.err) THEN r
     ELSE VRet(None, [r.st EXCEPT !.scope = DictSet(@, var_name, r.val)])

\* An operand that is a name evaluated to the very object the name is bound to (line
\* 911 hands out the dict's value, line 961 passes it on).  When the call at path is
\* over, what it stored into the object of such an operand is what the name holds,
\* and a call that returned the object of operand k is entered in the history as
\* <<"alias", path, k>>.
shared(st, children, values, path, eff) ==
  [st EXCEPT
     !.scope = [n \in DOMAIN @ |->
                  IF \E k \in 1 .. Len(children) : children[k] = Var(n) /\ eff.args[k] # values[k]
                  THEN eff.args[CHOOSE k \in 1 .. Len(children) :
                                  children[k] = Var(n) /\ eff.args[k] # values[k]]
                  ELSE @[n]],
     !.trace = IF eff.at # 0 THEN Append(@, <<"alias", path, eff.at>>) ELSE @]

\* lines 960-961 seen from visit: what the application `called` returned or raised
\* and wrote
visit_applied(called, st) ==
  IF IsErr(called.err) THEN VFail(called.err, [st EXCEPT !.out = called.out])
  ELSE VRet(called.val, [st EXCEPT !.out = called.out])

\* visit_apply with the operands evaluated before the head is tested for a procedure
visit_apply_operands_first(node, path, fs, st) ==
  LET oper == visit(NodeOp(node), Append(path, 0), fs, st)
      values == visit_each(NodeChildren(node), 1, path, fs, oper.st, <<>>)
  IN IF IsErr(oper.err) THEN oper
     ELSE IF IsErr(values.err) THEN VFail(values.err, values.st)
     ELSE IF Tag(oper.val) # "proc"
     THEN VFail(MyError("expected procedure", "", <<oper.val>>), values.st)
     ELSE visit_applied(apply_proc(oper.val[2], values.vals, values.st.out),
                        shared(values.st, NodeChildren(node), values.vals, path,
                               effects(oper.val[2], values.vals)))

\* lines 956-961
visit_apply(node, path, fs, st) ==
  LET oper == visit(NodeOp(node), Append(path, 0), fs, st)
      values == visit_each(NodeChildren(node), 1, path, fs, oper.st, <<>>)
  IN IF IsErr(oper.err) THEN oper
     ELSE IF Tag(oper.val) # "proc"
     THEN VFail(MyError("expected procedure", "", <<oper.val>>), oper.st)
     ELSE IF IsErr(values.err) THEN VFail(values.err, values.st)
     ELSE visit_applied(apply_proc(oper.val[2], values.vals, values.st.out),
                        shared(values.st, NodeChildren(node), values.vals, path,
                               effects(oper.val[2], values.vals)))

\* lines 963-964
visit_compound(node, path, fs, st) ==
  LET r == visit_each(NodeChildren(node), 1, path, fs, st, <<>>)
  IN IF IsErr(r.err) THEN VFail(r.err, r.st) ELSE VRet(ListV(r.vals), r.st)

\* the body of Interpreter.visit (lines 907-965) on the node at path
visit_node(node, path, fs, st) ==
  LET type == NodeType(node)
      name == IF type = "ManyOp" /\ NodeType(NodeOp(node)) = "Var"
              THEN NodeVal(NodeOp(node))
              ELSE <<>>
  IN CASE type \in {"Num", "Bool", "Char"} -> VRet(NodeVal(node), st)
       [] type = "Str" -> VRet(StrV(NodeVal(node)), st)
       [] type = "Var" -> visit_var(node, st)
       [] type = "BoolArr" -> visit_boolarr(node, fs, st)
       [] type = "ManyOp" ->
            IF name = cIf THEN visit_if(node, path, fs, st)
            ELSE IF name = cWhen THEN visit_when(node, path, fs, st)
            ELSE IF name \in {cDefine, cSetBang} THEN visit_define(node, name, path, fs, st)
            ELSE visit_apply(node, path, fs, st)
       [] type = "Compound" -> visit_compound(node, path, fs, st)

\* a call of visit that returned r is entered in the history; one that raised is not
visit_exit(r, path) ==
  IF IsErr(r.err) THEN r
  ELSE [r EXCEPT !.st.trace = Append(@, <<"exit", path, r.val>>)]

\* Interpreter.visit, with the call entered in the history
visit(node, path, fs, st0) ==
  visit_exit(visit_node(node, path, fs, [st0 EXCEPT !.trace = Append(@, <<"enter", path>>)]), path)

(***************************************************************************)
(* STATE                                                                   *)
(***************************************************************************)
VARIABLES
  lexer,          \* the Lexer object: [text, pos]; its char is CharAt(text, pos)
  current_token,  \* Parser.current_token
  tokens,         \* history: the tokens get_next_token has returned to LexNextToken
  tok_start,      \* history: where the lexer stood when get_next_token was last called
  call,           \* the procedure application at hand: [o, values, arity, types]
  result,         \* what the last operation returned or raised: [err, val]
  GLOBAL_SCOPE,   \* the dict Interpreter.GLOBAL_SCOPE
  filesetup,      \* repl.py's filesetup (None without an input file)
  stdout,         \* what the current iteration of the loop has written to sys.stdout
  pass,           \* history of the last interpret(): scope before, tree, visits
  lines,          \* how many lines input() has handed to the loop
  pc              \* where control stands

vars == <<lexer, current_token, tokens, tok_start, call, result, GLOBAL_SCOPE,
          filesetup, stdout, pass, lines, pc>>

NoCall == [key |-> "", o |-> "", values |-> <<>>, arity |-> <<0, NoUpper>>, types |-> NoContracts]

NoResult == [err |-> NoErr, val |-> None]

\* ran: interpret() was called; parsed: its comp() returned the tree `node`
NoPass ==
  [scope |-> SeedScope, node |-> Compound(<<>>), trace |-> <<>>, ran |-> FALSE,
   parsed |-> FALSE]

Lexer(text) == [text |-> text, pos |-> 0]

(***************************************************************************)
(* SpecFront: the lexer and the parser on every short source text.  A      *)
(* Lexer is either asked for its tokens one by one or handed to a Parser   *)
(* whose comp() reads the whole program.                                   *)
(***************************************************************************)
FrontAlphabet == {"(", ")", "]", "\"", "\\", "0", "1", "2", "/", ".", "-", "a", " "}

FrontTexts == SeqsUpTo(FrontAlphabet, MaxSrcLen)

InitFront ==
  /\ lexer \in {Lexer(t) : t \in FrontTexts}
  /\ current_token = Token(EOF, <<>>)
  /\ tokens = <<>>
  /\ tok_start = 0
  /\ call = NoCall
  /\ result = NoResult
  /\ GLOBAL_SCOPE = SeedScope
  /\ filesetup = NoFileSetup
  /\ stdout = <<>>
  /\ pass = NoPass
  /\ lines = 0
  /\ pc = "lexer"

RECURSIVE token_start(_, _)
\* where get_next_token, called at pos, stands once whitespace and comments are skipped
token_start(text, pos) ==
  LET p == skip_whitespace(text, pos)
  IN IF CharAt(text, p) = ";" THEN token_start(text, ScanUntil(text, p, {"\n"})) ELSE p

\* one call of lexer.get_next_token()
LexNextToken ==
  /\ pc \in {"lexer", "token"}
  /\ \E r \in {get_next_token(lexer.text, lexer.pos)} :
        /\ lexer' = [lexer EXCEPT !.pos = r.pos]
        /\ tok_start' = token_start(lexer.text, lexer.pos)
        /\ IF IsErr(r.err)
           THEN /\ result' = [err |-> r.err, val |-> None]
                /\ tokens' = tokens
                /\ pc' = "lex raised"
           ELSE /\ result' = [err |-> NoErr, val |-> r.tok]
                /\ tokens' = Append(tokens, r.tok)
                /\ pc' = IF TokType(r.tok) = EOF THEN "eof" ELSE "token"
  /\ UNCHANGED <<current_token, call, GLOBAL_SCOPE, filesetup, stdout, pass, lines>>

\* Parser(lexer).comp()
ParseProgram ==
  /\ pc = "lexer"
  /\ \E p \in {parse_program(lexer.text)} :
        /\ lexer' = [lexer EXCEPT !.pos = p.pos]
        /\ current_token' = p.tok
        /\ result' = [err |-> p.err, val |-> p.node]
        /\ pc' = IF IsErr(p.err) THEN "parse raised" ELSE "parsed"
  /\ UNCHANGED <<tokens, tok_start, call, GLOBAL_SCOPE, filesetup, stdout, pass, lines>>

NextFront == LexNextToken \/ ParseProgram

SpecFront == InitFront /\ [][NextFront]_vars

(***************************************************************************)
(* Properties of the lexer and the parser (SpecFront).                     *)
(***************************************************************************)
RECURSIVE ClosingQuote(_, _)
\* the position of the quote that closes a string whose body starts at pos; -1 if
\* the text ends first (a backslash takes the character after it along)
ClosingQuote(text, pos) ==
  LET c == CharAt(text, pos)
  IN IF c = NoChar THEN -1
     ELSE IF c = "\\" THEN ClosingQuote(text, pos + 2)
     ELSE IF c = "\"" THEN pos
     ELSE ClosingQuote(text, pos + 1)

\* get_next_token has just been called with an opening quote ahead that no quote closes
AtUnterminatedString ==
  /\ pc \in {"token", "eof", "lex raised"}
  /\ CharAt(lexer.text, tok_start) = "\""
  /\ ClosingQuote(lexer.text, tok_start + 1) = -1

\* C7: lexing a string literal whose opening quote is not followed by a closing quote
\* before the end of the input fails with a lex error (MyError), and the call
\* produces no token.
C7_UnterminatedStringIsLexError ==
  AtUnterminatedString =>
    /\ pc = "lex raised"
    /\ result.err.exc = "MyError"
    /\ result.val = None

\* the condition under which get_next_token enters Lexer.number at position p
StartsNumber(text, p) ==
  \/ CharAt(text, p) \in (Digits \cup {"."})
  \/ IsSign(CharAt(text, p)) /\ peek(text, p) \in (Digits \cup {"."})

\* the run of characters from 0-9 + - . / that starts at p
NumberRun(text, p) == SubSeq(text, p + 1, ScanWhile(text, p, NumberChars))

\* the run reads as the kind of number its characters select
ValidNumber(run) ==
  IF Has(run, "/") THEN ParseFraction(run).ok
  ELSE IF Has(run, ".") THEN ParseFloat(run).ok
  ELSE ParseInt(run).ok

\* get_next_token has just been called at a number run that no unit follows
AtUnitlessNumber ==
  /\ pc \in {"token", "eof", "lex raised"}
  /\ StartsNumber(lexer.text, tok_start)
  /\ ~char_is_norm(lexer.text, tok_start + Len(NumberRun(lexer.text, tok_start)))

\* C10: a unit-less number run that is no valid rational (with "/"), float (with
\* ".") or integer comes back as an identifier token carrying the run's text and no
\* error is raised; a valid rational whose denominator reduces to 1 comes back as a
\* number token holding an integer.
C10_InvalidNumberIsIdentifier ==
  AtUnitlessNumber =>
    LET run == NumberRun(lexer.text, tok_start)
        q == ParseFraction(run)
    IN /\ ~ValidNumber(run) =>
            /\ pc # "lex raised"
            /\ result.val = Token(ID, run)
       /\ (Has(run, "/") /\ q.ok /\ q.den = 1) =>
            /\ pc # "lex raised"
            /\ result.val = Token(NUM, IntV(q.num))

\* C9: whenever comp() returns a Compound without raising, the parser's current
\* token is EOF: every token of the source has been consumed.
C9_CompConsumesAllTokens ==
  pc = "parsed" =>
    /\ NodeType(result.val) = "Compound"
    /\ TokType(current_token) = EOF

RECURSIVE AllTokens(_, _)
\* the tokens of text from pos on, up to EOF or to the first lex error
AllTokens(text, pos) ==
  LET r == get_next_token(text, pos)
  IN IF IsErr(r.err) \/ TokType(r.tok) = EOF THEN <<>>
     ELSE <<r.tok>> \o AllTokens(text, r.pos)

RECURSIVE BracketMismatch(_, _)
\* some closing bracket of toks is of another family than the innermost bracket
\* open at it; open is the stack of the brackets open so far.  A closing bracket
\* with no bracket open ends the program (comp stops at it).
BracketMismatch(toks, open) ==
  IF toks = <<>> THEN FALSE
  ELSE LET t == TokType(Head(toks))
       IN IF t \in {LPAREN, LBRAC, LCUR} THEN BracketMismatch(Tail(toks), <<t>> \o open)
          ELSE IF t \notin Closers THEN BracketMismatch(Tail(toks), open)
          ELSE IF open = <<>> THEN FALSE
          ELSE IF Closer(Head(open)) # t THEN TRUE
          ELSE BracketMismatch(Tail(toks), Tail(open))

\* C8: parsing a source in which a closing bracket is of another family than the
\* innermost open bracket fails: comp() raises instead of returning a tree.
C8_BracketMismatchIsParseError ==
  (pc \in {"parsed", "parse raised"} /\ BracketMismatch(AllTokens(lexer.text, 0), <<>>)) =>
    pc = "parse raised"

(***************************************************************************)
(* SpecApply: lines 960-961 of Interpreter.visit on every table procedure  *)
(* and every short list of argument values, and check_args on its own on   *)
(* every short arity range and contract list.                              *)
(***************************************************************************)
ApplyValues ==
  { IntV(0), IntV(2), FracV(1, 2), FloatV(3, 2), BoolV(TRUE), BoolV(FALSE),
    StrV(<<"a", "b">>), CharV("c"), ArrV(<<TRUE, FALSE>>) }

CheckValues == {IntV(2), BoolV(TRUE), StrV(<<"a", "b">>)}

CheckArities == {<<0, NoUpper>>, <<1, NoUpper>>, <<1, 1>>, <<2, 2>>, <<1, 2>>, <<2, 3>>}

CheckDocs == {"number?", "boolean?", "string?"}

CheckTypes == {NoContracts} \cup {<<a>> : a \in CheckDocs} \cup {<<a, b>> : a, b \in CheckDocs}

\* the boolean arrays of up to MaxFrames frames, and the thresholds and margins
EditArrays == {ArrV(b) : b \in SeqsUpTo(BOOLEAN, MaxFrames)}

EditInts == {IntV(n) : n \in 0 .. 3}

\* the operands of a call such as (mincut n arr) or (cook a b arr)
EditArgLists ==
  {<<n, arr>> : n \in EditInts, arr \in EditArrays}
    \cup {<<a, b, arr>> : a \in EditInts, b \in EditInts, arr \in EditArrays}

\* dividends and divisors, and indices into the text "ab" on both sides of its ends
DomainInts == {IntV(n) : n \in -3 .. 3}

DomainArgLists ==
  {<<a, b>> : a \in DomainInts, b \in DomainInts}
    \cup {<<StrV(<<"a", "b">>), k>> : k \in DomainInts}

\* the argument lists Apply and CheckArgs are tried on
ApplyArgLists == SeqsUpTo(ApplyValues, MaxArgs) \cup EditArgLists \cup DomainArgLists

CheckArgLists == SeqsUpTo(CheckValues, MaxArgs)

InitApply ==
  /\ lexer = Lexer(<<>>)
  /\ current_token = Token(EOF, <<>>)
  /\ tokens = <<>>
  /\ tok_start = 0
  /\ call = NoCall
  /\ result = NoResult
  /\ GLOBAL_SCOPE = SeedScope
  /\ filesetup = NoFileSetup
  /\ stdout = <<>>
  /\ pass = NoPass
  /\ lines = 0
  /\ pc = "idle"

\* check_args(oper.name, values, oper.arity, oper.contracts); oper.proc(*values)
Apply ==
  /\ pc = "idle"
  /\ \E key \in ProcIds, values \in ApplyArgLists :
       LET oper == Procs[key]
           r == apply_proc(key, values, stdout)
       IN /\ call' = [key |-> key, o |-> oper.name, values |-> values,
                      arity |-> oper.arity, types |-> oper.contracts]
          /\ result' = [err |-> r.err, val |-> r.val]
          /\ stdout' = r.out
  /\ pc' = "applied"
  /\ UNCHANGED <<lexer, current_token, tokens, tok_start, GLOBAL_SCOPE, filesetup, pass, lines>>

\* check_args(o, values, arity, types)
CheckArgs ==
  /\ pc = "idle"
  /\ \E values \in CheckArgLists, arity \in CheckArities, types \in CheckTypes :
       /\ call' = [key |-> "", o |-> "o", values |-> values, arity |-> arity, types |-> types]
       /\ result' = [err |-> check_args("o", values, arity, types), val |-> None]
  /\ pc' = "checked"
  /\ UNCHANGED <<lexer, current_token, tokens, tok_start, GLOBAL_SCOPE, filesetup, stdout,
                 pass, lines>>

\* the call is over; the next one starts afresh
Return ==
  /\ pc \in {"applied", "checked"}
  /\ call' = NoCall
  /\ result' = NoResult
  /\ stdout' = <<>>
  /\ pc' = "idle"
  /\ UNCHANGED <<lexer, current_token, tokens, tok_start, GLOBAL_SCOPE, filesetup, pass, lines>>

NextApply == Apply \/ CheckArgs \/ Return

SpecApply == InitApply /\ [][NextApply]_vars

(***************************************************************************)
(* Properties of procedure application (SpecApply).                        *)
(***************************************************************************)
ArityErrors == {ArityFixed, ArityAtLeast, ArityBetween}

\* n arguments are within the arity range
InArity(arity, n) == n >= arity[1] /\ (arity[2] = NoUpper \/ n <= arity[2])

IsArityError(err) == err.exc = "MyError" /\ err.msg \in ArityErrors

\* C4: a builtin applied to a number of arguments outside its declared arity range
\* fails with an arity error naming the procedure, and a count inside the range
\* never raises an arity error; + with no argument returns 0; > >= < <= with 1 or 3
\* arguments fail with an arity error.
C4_ArityEnforced ==
  pc = "applied" =>
    LET n == Len(call.values)
    IN /\ ~InArity(call.arity, n) => (IsArityError(result.err) /\ result.err.who = call.o)
       /\ InArity(call.arity, n) => ~IsArityError(result.err)
       /\ (call.key = "+" /\ n = 0) => (~IsErr(result.err) /\ result.val = IntV(0))
       /\ (call.key \in {">", ">=", "<", "<="} /\ n \in {1, 3}) =>
            (IsArityError(result.err) /\ result.err.who = call.key)

\* the contract the claim assigns to 1-based position i
ExpectedContract(types, i) == types[IF i <= Len(types) THEN i ELSE Len(types)]

\* some argument of the call does not satisfy the contract of its position
BadArgument(c) ==
  /\ c.types # NoContracts
  /\ \E i \in 1 .. Len(c.values) : ~Check(ExpectedContract(c.types, i), c.values[i])

\* C5: for a procedure that declares contracts, the argument at position i is checked
\* against contract i and every argument past the declared list against the last
\* contract.  A call with a failing argument never runs the computation: it raises,
\* and once the count is within the arity range what it raises is the wrong-type
\* error naming the procedure and the declared type descriptions, with nothing
\* written or returned.  A call whose arguments all satisfy their contracts raises
\* no wrong-type error.  check_args on its own obeys the same rule for every arity
\* range and contract list.
C5_ContractsEnforced ==
  /\ (pc = "applied" /\ call.types # NoContracts) =>
       LET inside == InArity(call.arity, Len(call.values))
       IN /\ BadArgument(call) =>
               /\ result.val = None
               /\ stdout = <<>>
               /\ IF inside
                  THEN result.err = MyError(WrongType, call.o, call.types)
                  ELSE IsArityError(result.err)
          /\ ~BadArgument(call) => result.err.msg # WrongType
  /\ pc = "checked" =>
       result.err =
         IF ~InArity(call.arity, Len(call.values))
         THEN result.err
         ELSE IF BadArgument(call) THEN MyError(WrongType, call.o, call.types)
         ELSE NoErr
  /\ pc = "checked" => (IsArityError(result.err) <=> ~InArity(call.arity, Len(call.values)))

\* an argument past the declared contract list, and only it, fails the last contract
C5_Witness ==
  /\ pc = "applied"
  /\ call.key = "string-append"
  /\ call.values = <<StrV(<<"a", "b">>), StrV(<<"a", "b">>), IntV(2)>>
  /\ result.err = MyError(WrongType, "string-append", <<"string?">>)

(***************************************************************************)
(* Spec: the read-eval-print loop of repl.py (lines 107-127).  Every line  *)
(* gets a Lexer, a Parser and a new Interpreter; input() hands the loop a  *)
(* line of ReplSources.                                                    *)
(***************************************************************************)
RECURSIVE Words(_)
\* the texts ws joined by single spaces
Words(ws) ==
  IF Len(ws) = 0 THEN <<>>
  ELSE IF Len(ws) = 1 THEN ws[1]
  ELSE ws[1] \o <<" ">> \o Words(Tail(ws))

\* a parenthesised form
Form(ws) == <<"(">> \o Words(ws) \o <<")">>

cX == <<"x">>
cY == <<"y">>
tOne == <<"1">>
tTwo == <<"2">>
tTrue == <<"#", "t">>
tFalse == <<"#", "f">>
tStrA == <<"\"", "a", "\"">>
tDisplayA == Form(<<NameChars["display"], tStrA>>)
tErrorA == Form(<<NameChars["error"], tStrA>>)
tDefineX1 == Form(<<cDefine, cX, tOne>>)
tDefineX2 == Form(<<cDefine, cX, tTwo>>)
tWhenFalse == Form(<<cWhen, tFalse, tOne>>)
tXIsOne == Form(<<NameChars["="], cX, tOne>>)
tBadHash == <<"#", "z">>
tZeroDenominator == <<"1", "/", "0">>

\* test expressions: true, false, depending on x, no boolean, raising
SrcConds == {tTrue, tFalse, tXIsOne, tOne, cY}

\* branches: writing, binding, raising, reading
SrcBranches == {tDisplayA, tDefineX2, tErrorA, cX, tOne}

\* the right-hand sides of define and set!
SrcValues == {tOne, tTwo, tStrA, tWhenFalse, tDisplayA, cX, cY, Form(<<NameChars["+"], cX, tOne>>)}

\* top-level expressions of a program of several
SrcStatements == {tDisplayA, tErrorA, tDefineX1, cX, cY, tOne}

SrcIf == {Form(<<cIf, c, a, b>>) : c \in SrcConds, a \in SrcBranches, b \in SrcBranches}

SrcWhen == {Form(<<cWhen, c, a>>) : c \in SrcConds, a \in SrcBranches}

SrcNested ==
  {Form(<<cIf, c, Form(<<cWhen, d, a>>), Form(<<cIf, d, a, b>>)>>) :
     c \in {tTrue, tFalse}, d \in {tTrue, tFalse}, a \in {tDisplayA, tErrorA}, b \in {tDisplayA, tDefineX2}}

SrcBind ==
  {Form(<<cDefine, cX, e>>) : e \in SrcValues}
    \cup {Form(<<cSetBang, cX, e>>) : e \in SrcValues}
    \cup {Words(<<Form(<<cSetBang, cX, e>>), cX>>) : e \in SrcValues}
    \cup {Words(<<Form(<<cDefine, cX, e>>), cX>>) : e \in SrcValues}
    \cup {Form(<<cSetBang, cY, tOne>>), Form(<<cDefine, tOne, tOne>>), Form(<<cDefine, cX>>)}

SrcSeq ==
  {Words(<<a, b>>) : a \in SrcStatements, b \in SrcStatements}
    \cup {Words(<<a, b, c>>) : a \in SrcStatements, b \in SrcStatements, c \in SrcStatements}

\* sources that stop in the lexer or the parser, and ones whose head is no procedure
SrcBroken ==
  { tBadHash, Words(<<tDisplayA, tBadHash>>), Words(<<tDisplayA, tBadHash, tDisplayA>>),
    <<"(">>, Words(<<tDisplayA, <<"(">>>>), Words(<<tDisplayA, <<"(">>, tDisplayA>>),
    <<"(", ")">>, Words(<<tDisplayA, <<"(", ")">>>>),
    tZeroDenominator, Words(<<tDisplayA, tZeroDenominator>>),
    Form(<<tOne, tDisplayA>>), Form(<<NameChars["+"], tOne, tStrA>>),
    Form(<<NameChars["string-upcase"], tOne>>), Form(<<NameChars[">"], tOne>>),
    cAll, <<>> }

tTwoSec == <<"2", "s">>
tHalfSec == <<"1", "/", "2", "s">>
tDefineTimebase == Form(<<cDefine, cTimebase, <<"5">>>>)
tDefineStar == Form(<<cDefine, cStar, NameChars["+"]>>)

\* seconds literals, and definitions of the names their desugaring mentions
SrcSeconds == {tTwoSec, tHalfSec, tDefineTimebase, tDefineStar}

tBoolarr00100 == Form(<<NameChars["boolarr"], <<"0">>, <<"0">>, tOne, <<"0">>, <<"0">>>>)
tMargin2 == Form(<<NameChars["margin"], tTwo, tBoolarr00100>>)

tThree == <<"3">>
tDefineXArr == Form(<<cDefine, cX, Form(<<NameChars["boolarr"], <<"0">>, tOne, <<"0">>, tOne, tOne>>)>>)
tCookX == Form(<<NameChars["cook"], tThree, tTwo, cX>>)

\* calls of the procedures that edit arrays, on a literal array and on the array
\* bound to x, alone and followed by a lookup of x or by a second call
SrcEditX ==
  { tCookX, Form(<<NameChars["cook"], tTwo, tThree, cX>>),
    Form(<<NameChars["margin"], tOne, cX>>), Form(<<NameChars["margin"], tOne, tTwo, cX>>),
    Form(<<NameChars["mincut"], tTwo, cX>>), Form(<<NameChars["mcut"], tTwo, cX>>),
    Form(<<NameChars["minclip"], tTwo, cX>>), Form(<<NameChars["mclip"], tTwo, cX>>) }

SrcEdit ==
  {tMargin2, tDefineXArr} \cup SrcEditX
    \cup {Words(<<c, cX>>) : c \in SrcEditX}
    \cup {Words(<<c, d, cX>>) : c \in {tCookX, Form(<<NameChars["margin"], tOne, cX>>)},
                                d \in {tCookX, Form(<<NameChars["margin"], tOne, cX>>)}}

tGreaterStrA == Form(<<NameChars[">"], tStrA>>)

\* calls that break both the arity and a contract of the procedure
SrcApply == {tGreaterStrA, Form(<<NameChars["string-upcase"], tOne, tDisplayA>>)}

ReplSources ==
  SrcIf \cup SrcWhen \cup SrcNested \cup SrcBind \cup SrcSeq \cup SrcBroken \cup SrcSeconds
    \cup SrcEdit \cup SrcApply

\* the two hosts: no input file, or one file with timebase 30 and three frames
ReplFileSetups == {NoFileSetup, FileSetup(<<30, 1>>, <<TRUE, FALSE, TRUE>>)}

\* sys.stdout.write(display_val(item)): display_val(None) is the empty text
display_val(out, item) == IF item = None THEN out ELSE Append(out, <<"result", item>>)

RECURSIVE write_results(_, _)
\* for item in result: sys.stdout.write(display_val(item))
write_results(out, items) ==
  IF items = <<>> THEN out ELSE write_results(display_val(out, items[1]), Tail(items))

\* print(f"error: {e}")
print_error(out, e) == Append(out, <<"error", e>>)

Init ==
  /\ lexer = Lexer(<<>>)
  /\ current_token = Token(EOF, <<>>)
  /\ tokens = <<>>
  /\ tok_start = 0
  /\ call = NoCall
  /\ result = NoResult
  /\ GLOBAL_SCOPE = SeedScope
  /\ filesetup \in ReplFileSetups
  /\ stdout = <<>>
  /\ pass = NoPass
  /\ lines = 0
  /\ pc = "prompt"

\* text = input("> "); lexer = Lexer(text); parser = Parser(lexer), with the
\* `except MyError` of lines 113-115; any other exception leaves the loop
ReadLine ==
  /\ pc = "prompt"
  /\ lines < MaxLines
  /\ \E t \in ReplSources :
       \E first \in {ParserInit(t)} :
          /\ lexer' = [text |-> t, pos |-> first.pos]
          /\ current_token' = first.tok
          /\ result' = [err |-> first.err, val |-> None]
          /\ stdout' = IF first.err.exc = "MyError" THEN print_error(<<>>, first.err) ELSE <<>>
          /\ pc' = IF ~IsErr(first.err) THEN "parsed"
                   ELSE IF first.err.exc = "MyError" THEN "continue"
                   ELSE "crashed"
  /\ lines' = lines + 1
  /\ pass' = [NoPass EXCEPT !.scope = GLOBAL_SCOPE]
  /\ UNCHANGED <<tokens, tok_start, call, GLOBAL_SCOPE, filesetup>>

\* interpreter = Interpreter(parser, filesetup)
Construct ==
  /\ pc = "parsed"
  /\ GLOBAL_SCOPE' = InterpreterInit(GLOBAL_SCOPE, filesetup)
  /\ pc' = "constructed"
  /\ UNCHANGED <<lexer, current_token, tokens, tok_start, call, result, filesetup, stdout,
                 pass, lines>>

\* what interpret() leaves behind: p is what comp() gave and where it left the
\* parser, r what visit gave
interpreted(p, r) ==
  [err |-> r.err, val |-> r.val, st |-> r.st, tok |-> p.tok, pos |-> p.pos,
   node |-> IF IsErr(p.err) THEN Compound(<<>>) ELSE p.node, parsed |-> ~IsErr(p.err)]

\* self.visit(p) for what self.parser.comp() gave; visit is not called when comp raised
interpret_tree(p, fs, st0) ==
  interpreted(p, IF IsErr(p.err) THEN VFail(p.err, st0) ELSE visit(p.node, <<>>, fs, st0))

\* interpreter.interpret(): self.visit(self.parser.comp())
interpret(text, ps, fs, st0) == interpret_tree(comp(text, ps), fs, st0)

\* result = interpreter.interpret() and the writing of the results, with the
\* `except MyError` of lines 125-126
Interpret ==
  /\ pc = "constructed"
  /\ \E r \in {interpret(lexer.text, ParserState(current_token, lexer.pos), filesetup,
                         EvalState(GLOBAL_SCOPE, stdout, <<>>))} :
        /\ lexer' = [lexer EXCEPT !.pos = r.pos]
        /\ current_token' = r.tok
        /\ GLOBAL_SCOPE' = r.st.scope
        /\ result' = [err |-> r.err, val |-> r.val]
        /\ stdout' = IF ~IsErr(r.err) THEN write_results(r.st.out, r.val[2])
                     ELSE IF r.err.exc = "MyError" THEN print_error(r.st.out, r.err)
                     ELSE r.st.out
        /\ pass' = [scope |-> GLOBAL_SCOPE, node |-> r.node, trace |-> r.st.trace,
                    ran |-> TRUE, parsed |-> r.parsed]
        /\ pc' = IF IsErr(r.err) /\ r.err.exc # "MyError" THEN "crashed" ELSE "continue"
  /\ UNCHANGED <<tokens, tok_start, call, filesetup, lines>>

\* the loop goes round: its locals are dead, input() is called again
NextLine ==
  /\ pc = "continue"
  /\ lexer' = Lexer(<<>>)
  /\ current_token' = Token(EOF, <<>>)
  /\ result' = NoResult
  /\ stdout' = <<>>
  /\ pass' = NoPass
  /\ pc' = "prompt"
  /\ UNCHANGED <<tokens, tok_start, call, GLOBAL_SCOPE, filesetup, lines>>

\* `except (KeyboardInterrupt, EOFError): print("")` at the prompt
Quit ==
  /\ pc = "prompt"
  /\ stdout' = <<<<"newline">>>>
  /\ pc' = "done"
  /\ UNCHANGED <<lexer, current_token, tokens, tok_start, call, result, GLOBAL_SCOPE,
                 filesetup, pass, lines>>

Next == ReadLine \/ Construct \/ Interpret \/ NextLine \/ Quit

Spec == Init /\ [][Next]_vars

(***************************************************************************)
(* Properties of the evaluator, stated on the loop (Spec).  They read the  *)
(* state in which an iteration has finished: pc is "continue", or          *)
(* "crashed" when an exception other than MyError left the loop.           *)
(***************************************************************************)
IterationOver == pc \in {"continue", "crashed"}

RECURSIVE NodeAt(_, _)
\* the node at path below node; index 0 is a ManyOp's op
NodeAt(node, path) ==
  IF path = <<>> THEN node
  ELSE NodeAt(IF Head(path) = 0 THEN NodeOp(node) ELSE NodeChildren(node)[Head(path)],
              Tail(path))

IsPrefix(p, q) == Len(p) <= Len(q) /\ SubSeq(q, 1, Len(p)) = p

Entered(t, p) == \E i \in 1 .. Len(t) : t[i][1] = "enter" /\ t[i][2] = p

\* visit was called on the node at p or on a node below it
EnteredUnder(t, p) == \E i \in 1 .. Len(t) : t[i][1] = "enter" /\ IsPrefix(p, t[i][2])

Exited(t, p) == \E i \in 1 .. Len(t) : t[i][1] = "exit" /\ t[i][2] = p

\* the value the visit of the node at p returned
ExitVal(t, p) == t[CHOOSE i \in 1 .. Len(t) : t[i][1] = "exit" /\ t[i][2] = p][3]

\* node is the form (name c1 .. cn)
IsForm(node, name, n) ==
  /\ NodeType(node) = "ManyOp"
  /\ NodeType(NodeOp(node)) = "Var"
  /\ NodeVal(NodeOp(node)) = name
  /\ Len(NodeChildren(node)) = n

\* what the display procedure wrote
Displayed(out) == SelectSeq(out, LAMBDA e : e[1] = "display")

\* what the loop wrote for the results
Results(out) == SelectSeq(out, LAMBDA e : e[1] = "result")

\* the last pass ran a program whose first expression is (set! v e), v a symbol
FirstIsSet ==
  /\ IterationOver
  /\ pass.parsed
  /\ NodeChildren(pass.node) # <<>>
  /\ IsForm(NodeChildren(pass.node)[1], cSetBang, 2)
  /\ NodeType(NodeChildren(NodeChildren(pass.node)[1])[1]) = "Var"

\* C1: (set! x e) on a name with no binding fails with the runtime error "cannot set
\* before definition" and leaves the environment as it was; on a name that has a
\* binding it succeeds once e has a value, and a lookup of x that follows returns the
\* value of e.
C1_SetThenLookup ==
  FirstIsSet =>
    LET top == NodeChildren(pass.node)
        v == NodeVal(NodeChildren(top[1])[1])
        t == pass.trace
    IN /\ v \notin DOMAIN pass.scope =>
            /\ result.err = MyError("Cannot set variable before definition", "", <<v>>)
            /\ GLOBAL_SCOPE = pass.scope
       /\ (v \in DOMAIN pass.scope /\ Exited(t, <<1, 2>>)) =>
            /\ Exited(t, <<1>>)
            /\ (Len(top) = 2 /\ top[2] = Var(v)) =>
                 /\ Exited(t, <<2>>)
                 /\ ExitVal(t, <<2>>) = ExitVal(t, <<1, 2>>)

\* C3: a newly constructed Interpreter starts from the pre-seeded bindings only
\* (constants, builtins and the host's timebase): no binding made through an earlier
\* Interpreter is in its environment.
C3_FreshEnvironmentPerInterpreter ==
  pc = "constructed" => GLOBAL_SCOPE = InterpreterInit(SeedScope, filesetup)

\* the visits of the last pass obey the rule of `if` and `when` at the node at p
BranchRule(t, node, p) ==
  LET test == Append(p, 1)
      tested == Exited(t, test) /\ is_bool(ExitVal(t, test))
  IN /\ IsForm(node, cIf, 3) =>
          /\ Entered(t, test)
          /\ ~tested => (~EnteredUnder(t, Append(p, 2)) /\ ~EnteredUnder(t, Append(p, 3)))
          /\ (tested /\ ExitVal(t, test) = BoolV(TRUE)) =>
               (Entered(t, Append(p, 2)) /\ ~EnteredUnder(t, Append(p, 3)))
          /\ (tested /\ ExitVal(t, test) = BoolV(FALSE)) =>
               (Entered(t, Append(p, 3)) /\ ~EnteredUnder(t, Append(p, 2)))
     /\ IsForm(node, cWhen, 2) =>
          /\ Entered(t, test)
          /\ (tested /\ ExitVal(t, test) = BoolV(TRUE)) => Entered(t, Append(p, 2))
          /\ ~(tested /\ ExitVal(t, test) = BoolV(TRUE)) => ~EnteredUnder(t, Append(p, 2))

\* the effects of a program that is a single `if` or `when` are those of its test
\* followed by the branch the test selects, and of nothing else
BranchEffects ==
  LET form == NodeChildren(pass.node)[1]
      c == NodeChildren(form)
      rc == visit(c[1], <<>>, filesetup, EvalState(pass.scope, <<>>, <<>>))
      takes == IsForm(form, cIf, 3) \/ rc.val = BoolV(TRUE)
      taken == IF rc.val = BoolV(TRUE) THEN c[2] ELSE c[3]
      rb == IF takes THEN visit(taken, <<>>, filesetup, rc.st) ELSE VRet(None, rc.st)
  IN (~IsErr(rc.err) /\ is_bool(rc.val)) =>
       /\ GLOBAL_SCOPE = rb.st.scope
       /\ Displayed(stdout) = rb.st.out
       /\ result.err = rb.err
       /\ ~IsErr(rb.err) => result.val = ListV(<<rb.val>>)

\* C2: `if` evaluates its test and then exactly one of its two branches, `when`
\* evaluates its body only when the test is true: the untaken branch is never
\* visited, so nothing it would write, bind or raise happens.
C2_OnlyTakenBranchEvaluated ==
  (IterationOver /\ pass.parsed) =>
    /\ \A i \in 1 .. Len(pass.trace) :
         pass.trace[i][1] = "enter" =>
           BranchRule(pass.trace, NodeAt(pass.node, pass.trace[i][2]), pass.trace[i][2])
    /\ ( /\ Len(NodeChildren(pass.node)) = 1
         /\ \/ IsForm(NodeChildren(pass.node)[1], cIf, 3)
            \/ IsForm(NodeChildren(pass.node)[1], cWhen, 2) ) => BranchEffects

\* an `if` whose test is true took its first branch while the other one would have raised
C2_Witness ==
  /\ IterationOver
  /\ pass.parsed
  /\ Len(NodeChildren(pass.node)) = 1
  /\ IsForm(NodeChildren(pass.node)[1], cIf, 3)
  /\ IsForm(NodeChildren(NodeChildren(pass.node)[1])[3], NameChars["error"], 1)
  /\ Exited(pass.trace, <<1, 1>>)
  /\ ExitVal(pass.trace, <<1, 1>>) = BoolV(TRUE)
  /\ ~IsErr(result.err)
  /\ Displayed(stdout) # <<>>

\* C6: the first error raised while lexing, parsing or evaluating aborts the pass.
\* Nothing is evaluated after the failing node (every visit that follows the visit
\* that raised would be a visit of a later expression), no node is visited twice,
\* the error leaves interpret() (it is the loop that reports it, or the loop ends),
\* no result is written, and an error of the lexer or the parser leaves nothing
\* evaluated at all.  A pass raises exactly when one of its visits does not return.
C6_FirstErrorAborts ==
  (IterationOver /\ lines > 0) =>
    LET t == pass.trace
        unfinished == {i \in 1 .. Len(t) : t[i][1] = "enter" /\ ~Exited(t, t[i][2])}
    IN /\ \A i, j \in 1 .. Len(t) :
            (i < j /\ t[i][1] = "enter" /\ t[j][1] = "enter") => t[i][2] # t[j][2]
       /\ \A i \in unfinished : \A j \in i .. Len(t) : IsPrefix(t[i][2], t[j][2])
       /\ pass.parsed => (IsErr(result.err) <=> unfinished # {})
       /\ ~pass.parsed =>
            /\ IsErr(result.err)
            /\ t = <<>>
            /\ GLOBAL_SCOPE = pass.scope
            /\ Displayed(stdout) = <<>>
       /\ IsErr(result.err) =>
            /\ result.val = None
            /\ Results(stdout) = <<>>
            /\ IF result.err.exc = "MyError"
               THEN pc = "continue" /\ stdout[Len(stdout)] = <<"error", result.err>>
               ELSE pc = "crashed"
       /\ ~IsErr(result.err) =>
            result.val = ListV([k \in 1 .. Len(NodeChildren(pass.node)) |-> ExitVal(t, <<k>>)])

\* the second of three expressions raised after the first had written its output
C6_Witness ==
  /\ IterationOver
  /\ pass.parsed
  /\ Len(NodeChildren(pass.node)) = 3
  /\ IsErr(result.err)
  /\ Exited(pass.trace, <<1>>)
  /\ Entered(pass.trace, <<2>>)
  /\ ~Exited(pass.trace, <<2>>)
  /\ Displayed(stdout) # <<>>
  /\ IsForm(NodeChildren(pass.node)[3], NameChars["display"], 1)
(***************************************************************************)
(* Seconds literals (Spec).                                                *)
(***************************************************************************)
\* the environment the Interpreter of the last pass started from
PassScope == InterpreterInit(pass.scope, filesetup)

\* the last pass ran a program that is one seconds literal, with timebase bound to
\* a rational
SecondsLiteralRan ==
  /\ IterationOver
  /\ pass.parsed
  /\ Len(NodeChildren(pass.node)) = 1
  /\ \E v \in {IntV(2), FracV(1, 2)} : NodeChildren(pass.node)[1] = SecNode(v)
  /\ cTimebase \in DOMAIN PassScope
  /\ Tag(PassScope[cTimebase]) \in {"int", "frac"}

\* the v of the node that stands for a seconds literal
SecondsPayload(node) == NodeVal(NodeChildren(NodeChildren(node)[1])[1])

\* round(v * tb)
FramesOf(v, tb) == PyRound(<<NumQ(v)[1] * NumQ(tb)[1], NumQ(v)[2] * NumQ(tb)[2]>>)

\* C11: in every environment reached by evaluating earlier expressions in which
\* timebase is bound to a rational tb, a seconds literal with payload v evaluates to
\* the exact integer round(v * tb).
C11_SecondsAreFrames ==
  SecondsLiteralRan =>
    /\ ~IsErr(result.err)
    /\ result.val =
         ListV(<<IntV(FramesOf(SecondsPayload(NodeChildren(pass.node)[1]), PassScope[cTimebase]))>>)

\* the host's timebase of 30 turned 1/2s into 15 frames
C11_Reached ==
  /\ SecondsLiteralRan
  /\ result.val = ListV(<<IntV(15)>>)

(***************************************************************************)
(* The procedures that edit boolean arrays (SpecApply).                    *)
(***************************************************************************)
\* the maximal run of equal elements of bits that holds index i
RunOf(bits, i) ==
  {j \in 1 .. Len(bits) :
     \A k \in 1 .. Len(bits) : ((k >= i /\ k <= j) \/ (k >= j /\ k <= i)) => bits[k] = bits[i]}

\* bits with every maximal run of `target` shorter than n overwritten with the
\* other value
WithoutShortRuns(bits, target, n) ==
  [i \in 1 .. Len(bits) |->
     IF bits[i] = target /\ Cardinality(RunOf(bits, i)) < n THEN ~target ELSE bits[i]]

\* a procedure of the table has been applied to an exact integer and a boolean array
AppliedToIntAndArray(keys) ==
  /\ pc = "applied"
  /\ call.key \in keys
  /\ Len(call.values) = 2
  /\ is_eint(call.values[1])
  /\ is_boolarr(call.values[2])

\* C12: for every exact integer n and boolean array arr, (mincut n arr) (alias mcut)
\* returns an array as long as arr in which exactly the maximal runs of false
\* shorter than n are overwritten with true, and (minclip n arr) (alias mclip) does
\* the same with true and false exchanged.
C12_ShortRunsRemoved ==
  /\ AppliedToIntAndArray({"mincut", "mcut"}) =>
       /\ ~IsErr(result.err)
       /\ result.val = ArrV(WithoutShortRuns(call.values[2][2], FALSE, call.values[1][2]))
  /\ AppliedToIntAndArray({"minclip", "mclip"}) =>
       /\ ~IsErr(result.err)
       /\ result.val = ArrV(WithoutShortRuns(call.values[2][2], TRUE, call.values[1][2]))

\* cook has been applied to two exact integers and a boolean array
CookApplied ==
  /\ pc = "applied"
  /\ call.key = "cook"
  /\ Len(call.values) = 3
  /\ is_eint(call.values[1])
  /\ is_eint(call.values[2])
  /\ is_boolarr(call.values[3])

\* C14: for every boolean array arr and exact integers a and b, (cook a b arr) is arr
\* with its runs of true shorter than b removed first (minclip with threshold b) and
\* the runs of false of that result shorter than a removed next (mincut with
\* threshold a).
C14_CookIsMinclipThenMincut ==
  CookApplied =>
    /\ ~IsErr(result.err)
    /\ result.val =
         ArrV(WithoutShortRuns(WithoutShortRuns(call.values[3][2], TRUE, call.values[2][2]),
                               FALSE, call.values[1][2]))

\* on [1,0,1] with both thresholds 2 the order shows: the two frames of true go
\* first and the three frames of false that result stay, where mincut first would
\* have filled the array with true
C14_Witness ==
  /\ CookApplied
  /\ call.values = <<IntV(2), IntV(2), ArrV(<<TRUE, FALSE, TRUE>>)>>
  /\ result.val = ArrV(<<FALSE, FALSE, FALSE>>)
  /\ WithoutShortRuns(WithoutShortRuns(<<TRUE, FALSE, TRUE>>, FALSE, 2), TRUE, 2) = <<TRUE, TRUE, TRUE>>

\* the call at hand passed the checks of arity and contracts
CallChecked ==
  /\ pc = "applied"
  /\ InArity(call.arity, Len(call.values))
  /\ ~BadArgument(call)

\* the call divides by zero: a divisor of / (its only operand when there is one), or
\* the second operand of mod or modulo
ZeroDivisor ==
  \/ /\ call.key = "/"
     /\ \E i \in 1 .. Len(call.values) :
          (i > 1 \/ Len(call.values) = 1) /\ NumQ(call.values[i])[1] = 0
  \/ /\ call.key \in {"mod", "modulo"}
     /\ IntOf(call.values[2]) = 0

\* the call is a string-ref with an index outside [0, length of the string)
IndexOutside ==
  /\ call.key = "string-ref"
  /\ (call.values[2][2] < 0 \/ call.values[2][2] >= Len(call.values[1][2]))

\* C15: every arithmetic domain error is reported as a runtime error of the language
\* (MyError), never as a value and never as an exception of the host: a zero divisor
\* in /, mod or modulo fails with the division-by-zero error, and string-ref with an
\* index outside [0, length of the string) fails with the out-of-range error.
C15_DomainErrorsAreMyErrors ==
  CallChecked =>
    /\ ZeroDivisor =>
         /\ result.err.exc = "MyError"
         /\ result.err.msg = "division by zero"
         /\ result.val = None
    /\ IndexOutside =>
         /\ result.err.exc = "MyError"
         /\ result.err.msg = "string index is out of range"
         /\ result.val = None

(***************************************************************************)
(* margin on the loop (Spec).                                              *)
(***************************************************************************)
\* the last pass evaluated the source (margin 2 (boolarr 0 0 1 0 0)) with margin and
\* boolarr bound to the procedures of the table
MarginExampleRan ==
  /\ IterationOver
  /\ pass.parsed
  /\ lexer.text = tMargin2
  /\ PassScope[NameChars["margin"]] = ProcV("margin")
  /\ PassScope[NameChars["boolarr"]] = ProcV("boolarr")

\* C13 as stated: the source (margin 2 (boolarr 0 0 1 0 0)) yields the single
\* boolean array [0,1,1,1,0].
C13_MarginExampleAsStated ==
  MarginExampleRan =>
    /\ ~IsErr(result.err)
    /\ result.val = ListV(<<ArrV(<<FALSE, TRUE, TRUE, TRUE, FALSE>>)>>)

\* C13: the source (margin 2 (boolarr 0 0 1 0 0)) yields the single boolean array
\* [1,1,1,1,1]: the one true frame, at index 2, grows by two frames on each side,
\* which takes in the whole array.
C13_MarginExample ==
  MarginExampleRan =>
    /\ ~IsErr(result.err)
    /\ result.val = ListV(<<ArrV(<<TRUE, TRUE, TRUE, TRUE, TRUE>>)>>)
    /\ Results(stdout) = <<<<"result", ArrV(<<TRUE, TRUE, TRUE, TRUE, TRUE>>)>>>>

\* the source has been evaluated and its visits of margin's two operands returned
C13_Witness ==
  /\ MarginExampleRan
  /\ ExitVal(pass.trace, <<1, 1>>) = IntV(2)
  /\ ExitVal(pass.trace, <<1, 2>>) = ArrV(<<FALSE, FALSE, TRUE, FALSE, FALSE>>)
  /\ Exited(pass.trace, <<1>>)

(***************************************************************************)
(* The order of a procedure application (Spec).                            *)
(***************************************************************************)
\* where in the history the visit of the node at p was entered and where it returned
EnterAt(t, p) == CHOOSE i \in 1 .. Len(t) : t[i][1] = "enter" /\ t[i][2] = p

ExitAt(t, p) == CHOOSE i \in 1 .. Len(t) : t[i][1] = "exit" /\ t[i][2] = p

\* node is an application: a form that is none of if, when, define, set!
IsApplication(node) ==
  /\ NodeType(node) = "ManyOp"
  /\ ~(NodeType(NodeOp(node)) = "Var" /\ NodeVal(NodeOp(node)) \in {cIf, cWhen, cDefine, cSetBang})

\* the operands of the application at p, all evaluated, against the arity range and
\* the contracts of the procedure the head gave
ChecksRule(t, p, oper, values) ==
  LET inside == InArity(oper.arity, Len(values))
      bad == BadArgument([values |-> values, types |-> oper.contracts])
  IN /\ ~inside =>
          /\ ~Exited(t, p)
          /\ IsArityError(result.err)
          /\ result.err.who = oper.name
     /\ (inside /\ bad) =>
          /\ ~Exited(t, p)
          /\ result.err = MyError(WrongType, oper.name, oper.contracts)
     /\ Exited(t, p) => (inside /\ ~bad)

\* the visits of the last pass obey the order of application at the node at p
ApplyRule(t, node, p) ==
  LET head == Append(p, 0)
      n == Len(NodeChildren(node))
      isProc == Exited(t, head) /\ Tag(ExitVal(t, head)) = "proc"
  IN /\ EnterAt(t, p) < Len(t)
     /\ t[EnterAt(t, p) + 1] = <<"enter", head>>
     /\ ~isProc =>
          /\ \A k \in 1 .. n : ~EnteredUnder(t, Append(p, k))
          /\ ~Exited(t, p)
     /\ (Exited(t, head) /\ ~isProc) =>
          result.err = MyError("expected procedure", "", <<ExitVal(t, head)>>)
     /\ isProc =>
          /\ n > 0 => t[ExitAt(t, head) + 1] = <<"enter", Append(p, 1)>>
          /\ \A k \in 1 .. n - 1 :
               Exited(t, Append(p, k)) =>
                 t[ExitAt(t, Append(p, k)) + 1] = <<"enter", Append(p, k + 1)>>
          /\ \A k \in 2 .. n : Entered(t, Append(p, k)) => Exited(t, Append(p, k - 1))
          /\ (n = 0 \/ Exited(t, Append(p, n))) =>
               ChecksRule(t, p, Procs[ExitVal(t, head)[2]],
                          [k \in 1 .. n |-> ExitVal(t, Append(p, k))])

\* C16: a procedure application proceeds in a fixed order.  The head is evaluated
\* first, and if it is no procedure a runtime error is raised before any operand is
\* evaluated; otherwise the operands are evaluated from left to right, then the
\* argument count is checked against the arity range, then the contracts, and the
\* procedure's computation runs only when both checks pass: a call that breaks both
\* the arity and a contract reports the arity error.
C16_ApplicationOrder ==
  (IterationOver /\ pass.parsed) =>
    \A i \in 1 .. Len(pass.trace) :
      (pass.trace[i][1] = "enter" /\ IsApplication(NodeAt(pass.node, pass.trace[i][2]))) =>
        ApplyRule(pass.trace, NodeAt(pass.node, pass.trace[i][2]), pass.trace[i][2])

\* (> "a") broke the arity of > and its contract real?, and the error is the arity error
C16_Witness ==
  /\ IterationOver
  /\ pass.parsed
  /\ lexer.text = tGreaterStrA
  /\ ExitVal(pass.trace, <<1, 0>>) = ProcV(">")
  /\ ExitVal(pass.trace, <<1, 1>>) = StrV(<<"a">>)
  /\ ~Exited(pass.trace, <<1>>)
  /\ IsArityError(result.err)
  /\ result.err.who = ">"

(***************************************************************************)
(* The procedures that edit arrays leave their operand alone (Spec).       *)
(***************************************************************************)
\* node is a call of margin, cook, mincut or minclip (or of an alias) whose last
\* operand is x and whose other operands are numbers
IsEditOfX(node) ==
  /\ \E k \in EditProcs : \E n \in 2 .. 3 : IsForm(node, NameChars[k], n)
  /\ NodeChildren(node)[Len(NodeChildren(node))] = Var(cX)
  /\ \A i \in 1 .. Len(NodeChildren(node)) - 1 : NodeType(NodeChildren(node)[i]) = "Num"

\* the last pass ran a program of such calls and of lookups of x, with x bound to an
\* array and the procedures' names bound to the procedures of the table
EditsOfXRan ==
  /\ IterationOver
  /\ pass.parsed
  /\ NodeChildren(pass.node) # <<>>
  /\ \A i \in 1 .. Len(NodeChildren(pass.node)) :
       IsEditOfX(NodeChildren(pass.node)[i]) \/ NodeChildren(pass.node)[i] = Var(cX)
  /\ cX \in DOMAIN PassScope
  /\ is_boolarr(PassScope[cX])
  /\ \A k \in EditProcs : PassScope[NameChars[k]] = ProcV(k)

\* C17: margin, cook, mincut and minclip never change their array operand.  With an
\* array bound to x, after any sequence of these calls on x the name x is still
\* bound to an array equal to the one bound before, every lookup of x in between
\* gave that array, and no call returned the object of one of its operands: the
\* result is a new array.
C17_OperandNotMutated ==
  EditsOfXRan =>
    /\ GLOBAL_SCOPE[cX] = PassScope[cX]
    /\ \A i \in 1 .. Len(NodeChildren(pass.node)) :
         (NodeChildren(pass.node)[i] = Var(cX) /\ Exited(pass.trace, <<i>>)) =>
           ExitVal(pass.trace, <<i>>) = PassScope[cX]
    /\ \A j \in 1 .. Len(pass.trace) : pass.trace[j][1] # "alias"

\* (cook 3 2 x) returned an array other than the one bound to x, and the lookup of x
\* that followed gave the array bound before
C17_Witness ==
  /\ EditsOfXRan
  /\ lexer.text = Words(<<tCookX, cX>>)
  /\ ~IsErr(result.err)
  /\ ExitVal(pass.trace, <<1>>) # PassScope[cX]
  /\ ExitVal(pass.trace, <<2>>) = PassScope[cX]

(***************************************************************************)
(* Lookup after define and set! (Spec).                                    *)
(***************************************************************************)
\* the last pass ran (define x e) x or (set! x e) x and the binding form completed
BoundThenLookedUp ==
  /\ IterationOver
  /\ pass.parsed
  /\ Len(NodeChildren(pass.node)) = 2
  /\ \/ IsForm(NodeChildren(pass.node)[1], cDefine, 2)
     \/ IsForm(NodeChildren(pass.node)[1], cSetBang, 2)
  /\ NodeChildren(NodeChildren(pass.node)[1])[1] = Var(cX)
  /\ NodeChildren(pass.node)[2] = Var(cX)
  /\ Exited(pass.trace, <<1>>)

\* the last pass ran the program x
LookedUp ==
  /\ IterationOver
  /\ pass.parsed
  /\ NodeChildren(pass.node) = <<Var(cX)>>

IsUndefined(err) == err.exc = "MyError" /\ err.msg = "is undefined"

\* C18: a lookup of a name fails with the "undefined" runtime error exactly when the
\* name has no binding in the environment; once (define x e) or (set! x e) has
\* completed without error, evaluating x succeeds and gives the value of e, also
\* when e produces no value (a when whose test is false, display, an empty begin).
C18_LookupFailsIffUnbound ==
  /\ LookedUp => (IsUndefined(result.err) <=> cX \notin DOMAIN PassScope)
  /\ BoundThenLookedUp =>
       /\ ~IsErr(result.err)
       /\ Exited(pass.trace, <<2>>)
       /\ ExitVal(pass.trace, <<2>>) = ExitVal(pass.trace, <<1, 2>>)

============================================================================
